---- MODULE Spec2Model ----
(***************************************************************************)
(* The group-by / sum / count query node of proof-of-sql                    *)
(* (crates/proof-of-sql/src/sql/ast/group_by_expr.rs) and the four passes   *)
(* every query node implements: count, result_evaluate, prover_evaluate     *)
(* and verifier_evaluate.                                                   *)
(*                                                                          *)
(* One behaviour is one query evaluation over one table: the count pass,    *)
(* the prover's result pass and prove pass, then the verifier's pass over   *)
(* the proof.  Scalars are the elements of a prime field, here of order P.  *)
(* Vectors are sequences indexed from 1 (row i of the source is i + 1).     *)
(***************************************************************************)
EXTENDS Integers, Sequences, FiniteSets, TLC

(***************************************************************************)
(* Bounds of the model.                                                     *)
(***************************************************************************)
\* the longest table
MaxN == 3
\* the most push_column_ref calls made on one QueryContext
MaxColumnRefs == 3
\* the most aggregation scopes entered on one QueryContext
MaxAggregations == 2
\* the most result expressions pushed on one QueryContext
MaxResultExprs == 3
\* the most result expressions pushed where only their aliases are analysed
MaxAliasedExprs == 4
\* the largest magnitude of the unscaled integer of a decimal
MaxIntVal == 330
\* the largest magnitude of the scale of a decimal
MaxScale == 2
\* the largest precision a decimal is converted to
MaxPrecision == 4
\* the most group-by columns
MaxG == 2
\* the most sum columns
MaxS == 2
\* the most cells, table_length * (group-by columns + sum columns)
MaxCells == 4
\* the most cells of a table of the plaintext path
MaxResultCells == 6

(***************************************************************************)
(* The scalar field.                                                        *)
(***************************************************************************)
\* the order of the scalar field (a small prime in place of the curve order)
P == 5

Scalars == 0..(P - 1)

\* the values the table's columns hold
ColumnValues == {0, 1}

\* the values the columns of a table of the plaintext path hold
ResultColumnValues == {0, 1, 2}

Add(a, b) == (a + b) % P

Sub(a, b) == (a + P - b) % P

Mul(a, b) == (a * b) % P

\* -S::one()
NegOne == P - 1

\* Scalar::inv of a non-zero scalar
Inv(a) == CHOOSE y \in 1..(P - 1) : (a * y) % P = 1

RECURSIVE Pow(_, _)
Pow(b, k) == IF k = 0 THEN 1 ELSE Mul(b, Pow(b, k - 1))

RECURSIVE SumScalars(_)
SumScalars(v) == IF v = <<>> THEN 0 ELSE Add(Head(v), SumScalars(Tail(v)))

RECURSIVE SumInts(_)
SumInts(v) == IF v = <<>> THEN 0 ELSE Head(v) + SumInts(Tail(v))

RECURSIVE ProdScalars(_)
ProdScalars(v) == IF v = <<>> THEN 1 ELSE Mul(Head(v), ProdScalars(Tail(v)))

Max(a, b) == IF a >= b THEN a ELSE b

\* a vector read at row i, zero beyond its length
At(v, i) == IF i <= Len(v) THEN v[i] ELSE 0

\* a boolean column as scalars
BoolScalars(sel) == [i \in 1..Len(sel) |-> IF sel[i] THEN 1 ELSE 0]

\* slice_ops::slice_cast_mut: the count column cast into the front of a zeroed vector
slice_cast_mut(from, res) == [i \in 1..Len(res) |-> IF i <= Len(from) THEN from[i] % P ELSE res[i]]

\* slice_ops::batch_inversion: each non-zero entry inverted, a zero entry left as it is
batch_inversion(v) == [i \in 1..Len(v) |-> IF v[i] = 0 THEN 0 ELSE Inv(v[i])]

\* fold_columns: res[i] += sum_j mul * beta^j * columns[j][i], over the rows each column has
fold_columns(res, mul, beta, columns) ==
    [i \in 1..Len(res) |->
        Add(res[i],
            SumScalars([j \in 1..Len(columns) |->
                Mul(Mul(mul, Pow(beta, j - 1)), At(columns[j], i))]))]

\* fold_vals: sum_j beta^j * vals[j]
fold_vals(beta, vals) ==
    SumScalars([j \in 1..Len(vals) |-> Mul(Pow(beta, j - 1), vals[j])])

(***************************************************************************)
(* aggregate_columns: the selected rows grouped by distinct key tuple.      *)
(***************************************************************************)
SelectedRows(selection) == {i \in 1..Len(selection) : selection[i]}

KeyOf(group_by, i) == [j \in 1..Len(group_by) |-> group_by[j][i]]

\* lexicographic order on key tuples of one length
LexLess(a, b) ==
    \E k \in 1..Len(a) : a[k] < b[k] /\ \A j \in 1..(k - 1) : a[j] = b[j]

RECURSIVE SortedKeys(_)
SortedKeys(keys) ==
    IF keys = {} THEN <<>>
    ELSE LET least == CHOOSE x \in keys : \A y \in keys \ {x} : LexLess(x, y)
         IN <<least>> \o SortedKeys(keys \ {least})

RowsOfKey(group_by, selection, key) ==
    {i \in SelectedRows(selection) : KeyOf(group_by, i) = key}

RECURSIVE SumOver(_, _)
SumOver(col, rows) ==
    IF rows = {} THEN 0
    ELSE LET i == CHOOSE x \in rows : TRUE
         IN Add(col[i], SumOver(col, rows \ {i}))

aggregate_columns(group_by, sum_columns, selection) ==
    LET keys == SortedKeys({KeyOf(group_by, i) : i \in SelectedRows(selection)})
        m    == Len(keys)
    IN [group_by_columns |->
            [j \in 1..Len(group_by) |-> [k \in 1..m |-> keys[k][j]]],
        sum_columns |->
            [j \in 1..Len(sum_columns) |->
                [k \in 1..m |-> SumOver(sum_columns[j], RowsOfKey(group_by, selection, keys[k]))]],
        count_column |->
            [k \in 1..m |-> Cardinality(RowsOfKey(group_by, selection, keys[k]))]]

(***************************************************************************)
(* State.                                                                   *)
(***************************************************************************)
VARIABLES
    table_length,           \* n, the rows of the table
    group_by_exprs,         \* the group-by columns, each the column its ColumnExpr reads
    sum_expr,               \* the sum columns, likewise
    where_clause,           \* the selection: [kind, sel]
    count_errors,           \* the children whose count returns an error, by position
    expr_state,             \* the pass the evaluation has reached
    count_builder,          \* CountBuilder
    result_builder,         \* ResultBuilder
    post_result_challenges, \* the transcript's post-result challenges
    proof_builder,          \* ProofBuilder
    verification_builder,   \* VerificationBuilder
    count_result,           \* what count returned
    verify_result,          \* what verifier_evaluate returned
    query_context,          \* QueryContext, the state of the query analysis
    query_call,             \* the last call made on the QueryContext and what it returned
    query_history,          \* what an observer of the calls on the QueryContext has counted
    decimal,                \* an IntermediateDecimal: the BigDecimal [int_val, scale]
    decimal_call            \* the last conversion of the decimal and what it returned

vars == <<table_length, group_by_exprs, sum_expr, where_clause, count_errors, expr_state,
          count_builder, result_builder, post_result_challenges,
          proof_builder, verification_builder, count_result, verify_result,
          query_context, query_call, query_history, decimal, decimal_call>>

\* a decimal literal of the query and its conversion
literal == <<decimal, decimal_call>>

\* the query analysis that precedes the evaluation of the node
query == <<query_context, query_call, query_history>>

\* the node, its builders and the results of its passes
evaluation ==
    <<table_length, group_by_exprs, sum_expr, where_clause, count_errors, expr_state,
      count_builder, result_builder, post_result_challenges,
      proof_builder, verification_builder, count_result, verify_result>>

node == <<table_length, group_by_exprs, sum_expr, where_clause, count_errors>>

\* a Result<(), ProofError>: not returned yet, Ok(()), or Err of an error; child is
\* the position of the child the error came from, 0 for an error of the node itself
Pending == [returned |-> FALSE, ok |-> FALSE, error |-> "", child |-> 0]

Ok == [returned |-> TRUE, ok |-> TRUE, error |-> "", child |-> 0]

Err(error, child) == [returned |-> TRUE, ok |-> FALSE, error |-> error, child |-> child]

\* a call made on a builder: the method, what it was made for, and a position
Call(op, item, idx) == [op |-> op, item |-> item, idx |-> idx]

Columns(n) == [1..n -> ColumnValues]

\* the kinds of selection: a boolean column, or a composite (a comparison, a connective)
\* that produces a witness and registers an identity of its own
WhereKinds == {"composite"}

EmptyCountBuilder ==
    [result_columns |-> 0, anchored_mles |-> 0, intermediate_mles |-> 0,
     subpolynomials |-> 0, degree |-> 0, post_result_challenges |-> 0]

EmptyResultBuilder ==
    [result_index_vector |-> [kind |-> "Sparse", lo |-> 0, hi |-> 0], result_columns |-> <<>>,
     num_post_result_challenges |-> 0, log |-> <<>>]

EmptyProofBuilder ==
    [pcs |-> <<>>, anchored |-> <<>>, subpolynomials |-> <<>>,
     consumed_challenges |-> 0, log |-> <<>>]

EmptyVerificationBuilder ==
    [consumed_result_mles |-> 0, consumed_pcs_mles |-> 0, consumed_anchored_mles |-> 0,
     consumed_challenges |-> 0, sumcheck_evaluations |-> <<>>,
     mle_evaluations |->
        [one_evaluation |-> 0, random_evaluation |-> 0,
         result_indexes_evaluation |-> [some |-> FALSE, value |-> 0],
         anchored_evaluations |-> <<>>, pcs_evaluations |-> <<>>,
         result_evaluations |-> <<>>],
     log |-> <<>>]

\* an Option of an identifier or a table name
Absent == [some |-> FALSE, value |-> ""]

Present(x) == [some |-> TRUE, value |-> x]

\* QueryContext::default(); slice_expr and order_by_exprs, which no method
\* modelled here reads, are left out
DefaultQueryContext ==
    [in_agg_scope |-> FALSE, agg_counter |-> 0, col_ref_counter |-> 0, table |-> Absent,
     in_result_scope |-> FALSE, has_visited_group_by |-> FALSE, fixed_col_ref_counter |-> 0,
     group_by_exprs |-> <<>>, where_expr |-> Absent, result_column_set |-> {},
     res_aliased_exprs |-> <<>>, column_mapping |-> <<>>,
     first_result_col_out_agg_scope |-> Absent]

\* nothing observed yet: the successful entries of an aggregation scope, the
\* push_column_ref calls since the last of them, the push_column_ref calls since
\* the later of the last of them and the last successful push_aliased_result_expr,
\* and the columns pushed in result scope outside an aggregation scope, in order
NoHistory ==
    [agg_entries |-> 0, refs_since_entry |-> 0, refs_since_mark |-> 0, bare_columns |-> <<>>]

\* no call made yet on the QueryContext
NoCall ==
    [op |-> "", arg |-> "", result |-> [kind |-> ""],
     before |-> DefaultQueryContext, seen |-> NoHistory]

\* a query analysis that has not begun
QueryIdle ==
    /\ query_context = DefaultQueryContext
    /\ query_call = NoCall
    /\ query_history = NoHistory

\* BigDecimal: the value int_val * 10^(-scale)
BigDecimal(int_val, scale) == [int_val |-> int_val, scale |-> scale]

\* no conversion made yet
NoConversion == [op |-> "", result |-> [kind |-> ""]]

\* no decimal literal converted: the decimal 0
LiteralIdle ==
    /\ decimal = BigDecimal(0, 0)
    /\ decimal_call = NoConversion

Init ==
    /\ QueryIdle
    /\ LiteralIdle
    /\ table_length \in 0..MaxN
    /\ \E g \in 0..MaxG, s \in 0..MaxS :
        /\ table_length * (g + s) <= MaxCells
        /\ group_by_exprs \in [1..g -> Columns(table_length)]
        /\ sum_expr \in [1..s -> Columns(table_length)]
        /\ count_errors \in SUBSET (1..(1 + g + s))
    /\ \E kind \in WhereKinds, sel \in [1..table_length -> BOOLEAN] :
        where_clause = [kind |-> kind, sel |-> sel]
    /\ expr_state = "Uninitialized"
    /\ count_builder = EmptyCountBuilder
    /\ result_builder = EmptyResultBuilder
    /\ post_result_challenges = <<>>
    /\ proof_builder = EmptyProofBuilder
    /\ verification_builder = EmptyVerificationBuilder
    /\ count_result = Pending
    /\ verify_result = Pending

(***************************************************************************)
(* The count pass.                                                          *)
(***************************************************************************)
\* ColumnExpr::count
ColumnExprCount(cb) == [cb EXCEPT !.anchored_mles = @ + 1]

\* the selection's count
WhereClauseCount(cb) ==
    IF where_clause.kind = "column" THEN ColumnExprCount(cb)
    ELSE [cb EXCEPT !.anchored_mles = @ + 1, !.intermediate_mles = @ + 1,
                    !.subpolynomials = @ + 1, !.degree = Max(@, 2)]

\* expr.count(builder)?; builder.count_result_columns(1), for each of k columns
RECURSIVE CountResultColumnExprs(_, _)
CountResultColumnExprs(cb, k) ==
    IF k = 0 THEN cb
    ELSE LET c == CountResultColumnExprs(cb, k - 1)
         IN [ColumnExprCount(c) EXCEPT !.result_columns = @ + 1]

\* what the children of the node count
ChildrenCount(cb) ==
    LET c == WhereClauseCount(cb)
    IN [c EXCEPT !.anchored_mles = @ + Len(group_by_exprs) + Len(sum_expr)]

\* GroupByOwnCount declaring one witness vector where two are produced
GroupByOwnCountOneWitness(cb) ==
    [cb EXCEPT !.result_columns = @ + 1,
               !.intermediate_mles = @ + 1,
               !.subpolynomials = @ + 3,
               !.degree = Max(@, 3),
               !.post_result_challenges = @ + 2]

\* what the node counts for itself after its columns
GroupByOwnCount(cb) ==
    [cb EXCEPT !.result_columns = @ + 1,
               !.intermediate_mles = @ + 2,
               !.subpolynomials = @ + 3,
               !.degree = Max(@, 3),
               !.post_result_challenges = @ + 2]

\* the children in the order count visits them: the selection at position 1, the
\* group-by expressions at 2..g+1, the sum expressions after them
NumChildren == 1 + Len(group_by_exprs) + Len(sum_expr)

\* the first child whose count returns an error, 0 when every child's count succeeds
FirstCountError ==
    IF count_errors = {} THEN 0
    ELSE CHOOSE k \in count_errors : \A j \in count_errors : k <= j

\* the children whose count has returned Ok when the ? operator returns at child k
CountChildrenBefore(cb, k) ==
    IF k = 1 THEN cb
    ELSE LET g == Len(group_by_exprs)
             counted_group_by == IF k - 2 < g THEN k - 2 ELSE g
             counted_sums     == (k - 2) - counted_group_by
         IN CountResultColumnExprs(
                CountResultColumnExprs(WhereClauseCount(cb), counted_group_by),
                counted_sums)

\* GroupByExprCount with the children's errors dropped instead of returned
GroupByExprCountIgnoringErrors(cb) ==
    GroupByOwnCount(CountChildrenBefore(cb, NumChildren + 1))

\* GroupByExpr::count: the builder it leaves
GroupByExprCount(cb) ==
    IF FirstCountError = 0
    THEN GroupByOwnCount(CountChildrenBefore(cb, NumChildren + 1))
    ELSE CountChildrenBefore(cb, FirstCountError)

\* GroupByExpr::count: the Result it returns
GroupByExprCountResult ==
    IF FirstCountError = 0 THEN Ok ELSE Err("child error", FirstCountError)

Count ==
    /\ expr_state = "Uninitialized"
    /\ count_builder' = GroupByExprCount(count_builder)
    /\ count_result' = GroupByExprCountResult
    /\ expr_state' = IF GroupByExprCountResult.ok THEN "Counted" ELSE "CountFailed"
    /\ UNCHANGED <<literal, query, node, result_builder, post_result_challenges,
                   proof_builder, verification_builder, verify_result>>

(***************************************************************************)
(* The output schema.                                                       *)
(***************************************************************************)
\* a ColumnField: the expression of the node it is the field of, and its type
ColumnField(of, idx, type) == [of |-> of, idx |-> idx, type |-> type]

\* get_column_result_fields with the count field pushed first
get_column_result_fields_count_first ==
    <<ColumnField("count_alias", 0, "BigInt")>>
    \o [j \in 1..Len(group_by_exprs) |-> ColumnField("group_by_exprs", j, "column")]
    \o [j \in 1..Len(sum_expr) |-> ColumnField("sum_expr", j, "field")]

\* GroupByExpr::get_column_result_fields: the field of each group-by column, the
\* output field given with each sum, the count alias as a BigInt
get_column_result_fields ==
    [j \in 1..Len(group_by_exprs) |-> ColumnField("group_by_exprs", j, "column")]
    \o [j \in 1..Len(sum_expr) |-> ColumnField("sum_expr", j, "field")]
    \o <<ColumnField("count_alias", 0, "BigInt")>>

(***************************************************************************)
(* The result pass.                                                         *)
(***************************************************************************)
\* selection with the mask ignored: every row selected
selection_all_rows == [i \in 1..table_length |-> TRUE]

\* Column::as_boolean of the selection's column
selection == where_clause.sel

\* group_by_columns evaluated in reverse list order
group_by_columns_reversed ==
    [j \in 1..Len(group_by_exprs) |-> group_by_exprs[Len(group_by_exprs) + 1 - j]]

\* ColumnExpr::result_evaluate / prover_evaluate of each group-by expression
group_by_columns == group_by_exprs

\* ColumnExpr::result_evaluate / prover_evaluate of each sum expression
sum_columns == sum_expr

\* the aggregation both passes compute from the evaluated columns
Aggregated == aggregate_columns(group_by_columns, sum_columns, selection)

\* DenseIndexes as the inclusive range 0..=count_column.len()
DenseIndexesInclusive(count_column) ==
    [kind |-> "Dense", lo |-> 0, hi |-> Len(count_column) + 1]

\* Indexes::Dense(0..(count_column.len()))
DenseIndexes(count_column) == [kind |-> "Dense", lo |-> 0, hi |-> Len(count_column)]

\* ResultBuilder::set_result_indexes
set_result_indexes(rb, indexes) ==
    [rb EXCEPT !.result_index_vector = indexes,
               !.log = Append(@, Call("set_result_indexes", "indexes", indexes.hi))]

\* ResultBuilder::produce_result_column
produce_result_column(rb, col, item) ==
    [rb EXCEPT !.result_columns = Append(@, col),
               !.log = Append(@, Call("produce_result_column", item, Len(rb.result_columns) + 1))]

\* ResultBuilder::request_post_result_challenges
request_post_result_challenges(rb, k) ==
    [rb EXCEPT !.num_post_result_challenges = @ + k,
               !.log = Append(@, Call("request_post_result_challenges", "challenges", k))]

RECURSIVE ProduceResultColumns(_, _, _, _)
ProduceResultColumns(rb, cols, item, k) ==
    IF k = 0 THEN rb
    ELSE produce_result_column(ProduceResultColumns(rb, cols, item, k - 1), cols[k], item)

\* ProducedResultColumns with the count column produced first
ProducedResultColumnsCountFirst(rb, agg) ==
    ProduceResultColumns(
        ProduceResultColumns(
            produce_result_column(rb, agg.count_column, "count"),
            agg.group_by_columns, "group_by", Len(agg.group_by_columns)),
        agg.sum_columns, "sum", Len(agg.sum_columns))

\* the result columns in the order the result pass produces them
ProducedResultColumns(rb, agg) ==
    produce_result_column(
        ProduceResultColumns(
            ProduceResultColumns(rb, agg.group_by_columns, "group_by", Len(agg.group_by_columns)),
            agg.sum_columns, "sum", Len(agg.sum_columns)),
        agg.count_column, "count")

\* GroupByResultEvaluate with the indexes set after the columns are produced
GroupByResultEvaluateIndexesLast(rb) ==
    request_post_result_challenges(
        set_result_indexes(ProducedResultColumns(rb, Aggregated),
                           DenseIndexes(Aggregated.count_column)),
        2)

\* GroupByExpr::result_evaluate
GroupByResultEvaluate(rb) ==
    request_post_result_challenges(
        ProducedResultColumns(
            set_result_indexes(rb, DenseIndexes(Aggregated.count_column)),
            Aggregated),
        2)

ResultEvaluate ==
    /\ expr_state = "Counted"
    /\ result_builder' = GroupByResultEvaluate(result_builder)
    /\ expr_state' = "ResultEvaluated"
    /\ UNCHANGED <<literal, query, node, count_builder, post_result_challenges,
                   proof_builder, verification_builder, count_result, verify_result>>

(***************************************************************************)
(* The prove pass.                                                          *)
(***************************************************************************)
\* ProofBuilder::produce_anchored_mle
produce_anchored_mle(pb, col, item, j) ==
    [pb EXCEPT !.anchored = Append(@, col),
               !.log = Append(@, Call("produce_anchored_mle", item, j))]

\* ProofBuilder::produce_intermediate_mle
produce_intermediate_mle(pb, v, item) ==
    [pb EXCEPT !.pcs = Append(@, v),
               !.log = Append(@, Call("produce_intermediate_mle", item, Len(pb.pcs) + 1))]

\* ProofBuilder::produce_sumcheck_subpolynomial
produce_sumcheck_subpolynomial(pb, type, terms, item) ==
    [pb EXCEPT !.subpolynomials = Append(@, [type |-> type, terms |-> terms]),
               !.log = Append(@, Call("produce_sumcheck_subpolynomial", item,
                                      Len(pb.subpolynomials) + 1))]

\* ProofBuilder::consume_post_result_challenge: the builder after the call
consume_post_result_challenge(pb, item) ==
    [pb EXCEPT !.consumed_challenges = @ + 1,
               !.log = Append(@, Call("consume_post_result_challenge", item,
                                      pb.consumed_challenges + 1))]

\* the scalar the next consume_post_result_challenge call returns
NextChallenge(builder, challenges) == challenges[builder.consumed_challenges + 1]

\* a term of a subpolynomial: a coefficient and the vectors multiplied
Term(coef, factors) == [coef |-> coef, factors |-> factors]

\* the selection's prover_evaluate
WhereClauseProverEvaluate(pb) ==
    LET anchored == produce_anchored_mle(pb, BoolScalars(selection), "where_clause", 0)
    IN IF where_clause.kind = "column" THEN anchored
       ELSE produce_sumcheck_subpolynomial(
                produce_intermediate_mle(anchored, BoolScalars(selection), "where_clause"),
                "Identity",
                <<Term(1, <<BoolScalars(selection), BoolScalars(selection)>>),
                  Term(NegOne, <<BoolScalars(selection)>>)>>,
                "where_clause")

\* ColumnExpr::prover_evaluate of the first k expressions of a list
RECURSIVE ColumnExprsProverEvaluate(_, _, _, _)
ColumnExprsProverEvaluate(pb, cols, item, k) ==
    IF k = 0 THEN pb
    ELSE produce_anchored_mle(ColumnExprsProverEvaluate(pb, cols, item, k - 1),
                              cols[k], item, k)

\* the children of the node in the order prover_evaluate evaluates them
ChildrenProverEvaluate(pb) ==
    ColumnExprsProverEvaluate(
        ColumnExprsProverEvaluate(WhereClauseProverEvaluate(pb),
                                  group_by_columns, "group_by_exprs", Len(group_by_columns)),
        sum_columns, "sum_expr", Len(sum_columns))

\* alloc.alloc_slice_fill_copy(n, value)
Filled(n, value) == [i \in 1..n |-> value]

\* g_in_fold = alpha + sum beta^j * g_in[j]
g_in_fold(n, alpha, beta, g_in) == fold_columns(Filled(n, alpha), 1, beta, g_in)

\* g_out_bar_fold = alpha + sum beta^j * g_out_bar[j]
g_out_bar_fold(n, alpha, beta, g_out) == fold_columns(Filled(n, alpha), 1, beta, g_out)

\* sum_in_fold = 1 + sum beta^(j+1) * sum_in[j]
sum_in_fold(n, beta, sum_in) == fold_columns(Filled(n, 1), beta, beta, sum_in)

\* sum_out_bar_fold with the sums weighted from beta^0, as the key folds are
sum_out_bar_fold_unit_weight(n, beta, sum_out, count_out) ==
    fold_columns(slice_cast_mut(count_out, Filled(n, 0)), 1, beta, sum_out)

\* sum_out_bar_fold with the count column left out of the fold
sum_out_bar_fold_without_count(n, beta, sum_out, count_out) ==
    fold_columns(Filled(n, 0), beta, beta, sum_out)

\* sum_out_bar_fold = count_out_bar + sum beta^(j+1) * sum_out_bar[j]
sum_out_bar_fold(n, beta, sum_out, count_out) ==
    fold_columns(slice_cast_mut(count_out, Filled(n, 0)), beta, beta, sum_out)

\* g_in_star as the copy of g_in_fold, the batch inversion left out
g_in_star_not_inverted(n, alpha, beta, g_in) == g_in_fold(n, alpha, beta, g_in)

\* g_in_star = g_in_fold^(-1)
g_in_star(n, alpha, beta, g_in) == batch_inversion(g_in_fold(n, alpha, beta, g_in))

\* g_out_star padded with alpha where alpha^(-1) belongs
g_out_star_padded_with_alpha(n, alpha, beta, g_out, m_out) ==
    LET fold     == g_out_bar_fold(n, alpha, beta, g_out)
        inverted == batch_inversion(SubSeq(fold, 1, m_out))
    IN [i \in 1..n |-> IF i > m_out THEN alpha ELSE inverted[i]]

\* g_out_star with the padding value written from the last output group on
g_out_star_padding_over_last_group(n, alpha, beta, g_out, m_out) ==
    LET fold     == g_out_bar_fold(n, alpha, beta, g_out)
        inverted == batch_inversion(SubSeq(fold, 1, m_out))
    IN [i \in 1..n |-> IF i >= m_out THEN Inv(alpha) ELSE inverted[i]]

\* g_out_star = g_out_bar_fold^(-1), alpha^(-1) beyond the output length (alpha is not 0)
g_out_star(n, alpha, beta, g_out, m_out) ==
    LET fold     == g_out_bar_fold(n, alpha, beta, g_out)
        inverted == batch_inversion(SubSeq(fold, 1, m_out))
    IN [i \in 1..n |-> IF i > m_out THEN Inv(alpha) ELSE inverted[i]]

\* the ZeroSum identity with the output side not weighted by g_out_star
ZeroSumTermsUnweightedOutput(gis, sel_in, sif, gos, sobf) ==
    <<Term(1, <<gis, BoolScalars(sel_in), sif>>), Term(NegOne, <<sobf>>)>>

\* sum g_in_star * sel_in * sum_in_fold - g_out_star * sum_out_bar_fold = 0
ZeroSumTerms(gis, sel_in, sif, gos, sobf) ==
    <<Term(1, <<gis, BoolScalars(sel_in), sif>>), Term(NegOne, <<gos, sobf>>)>>

\* star * fold - 1 = 0
InverseTerms(star, fold) ==
    <<Term(1, <<star, fold>>), Term(NegOne, <<>>)>>

\* the witnesses of prove_group_by in the order they are produced
ProduceGroupByWitnesses(pb, gis, gos) ==
    produce_intermediate_mle(produce_intermediate_mle(pb, gis, "g_in_star"), gos, "g_out_star")

\* the identities of prove_group_by in the order they are registered
ProduceGroupByIdentities(pb, zero_sum, identity_in, identity_out) ==
    produce_sumcheck_subpolynomial(
        produce_sumcheck_subpolynomial(
            produce_sumcheck_subpolynomial(pb, "ZeroSum", zero_sum, "zero_sum"),
            "Identity", identity_in, "g_in_star"),
        "Identity", identity_out, "g_out_star")

\* prove_group_by, alpha not 0
prove_group_by(pb, n, alpha, beta, g_in, sum_in, sel_in, g_out, sum_out, count_out) ==
    LET m_out == Len(count_out)
        gif   == g_in_fold(n, alpha, beta, g_in)
        gof   == g_out_bar_fold(n, alpha, beta, g_out)
        sif   == sum_in_fold(n, beta, sum_in)
        sobf  == sum_out_bar_fold(n, beta, sum_out, count_out)
        gis   == g_in_star(n, alpha, beta, g_in)
        gos   == g_out_star(n, alpha, beta, g_out, m_out)
    IN ProduceGroupByIdentities(
           ProduceGroupByWitnesses(pb, gis, gos),
           ZeroSumTerms(gis, sel_in, sif, gos, sobf),
           InverseTerms(gis, gif),
           InverseTerms(gos, gof))

\* Scalar::inv: None for the additive identity
ScalarInv(a) == IF a = 0 THEN [some |-> FALSE, value |-> 0] ELSE [some |-> TRUE, value |-> Inv(a)]

\* the expect failing only when there is a position beyond the output to fill
alpha_inv_expect_panics_when_padded(n, alpha, m_out) == m_out < n /\ ~ScalarInv(alpha).some

\* alpha.inv().expect("alpha should never be 0") panics: the argument of fill is
\* evaluated whether or not g_out_star[m_out..] is empty
alpha_inv_expect_panics(n, alpha, m_out) == ~ScalarInv(alpha).some

\* GroupByExpr::prover_evaluate up to the call of prove_group_by: the children, then alpha, beta
ProverDrawChallenges(pb) ==
    consume_post_result_challenge(
        consume_post_result_challenge(ChildrenProverEvaluate(pb), "alpha"),
        "beta")

\* the challenge prover_evaluate binds to alpha
ProverAlpha(pb, challenges) == NextChallenge(ChildrenProverEvaluate(pb), challenges)

\* the challenge prover_evaluate binds to beta
ProverBeta(pb, challenges) ==
    NextChallenge(consume_post_result_challenge(ChildrenProverEvaluate(pb), "alpha"), challenges)

\* the prove pass's aggregation with the selection ignored
ProverAggregatedAllRows ==
    aggregate_columns(group_by_columns, sum_columns, selection_all_rows)

\* the aggregation prover_evaluate computes again from the columns its children return
ProverAggregated == aggregate_columns(group_by_columns, sum_columns, selection)

\* GroupByExpr::prover_evaluate, alpha not 0
GroupByProverEvaluate(pb, challenges) ==
    LET agg == ProverAggregated
    IN prove_group_by(ProverDrawChallenges(pb), table_length,
                      ProverAlpha(pb, challenges), ProverBeta(pb, challenges),
                      group_by_columns, sum_columns, selection,
                      agg.group_by_columns, agg.sum_columns, agg.count_column)

\* the prove pass, with the challenges the transcript yields after the result
ProverEvaluate ==
    /\ expr_state = "ResultEvaluated"
    /\ \E challenges \in [1..result_builder.num_post_result_challenges -> Scalars] :
        /\ post_result_challenges' = challenges
        /\ IF alpha_inv_expect_panics(table_length, ProverAlpha(proof_builder, challenges),
                                      Len(ProverAggregated.count_column))
           THEN \* the panic comes before the first produce_intermediate_mle
                /\ proof_builder' = ProverDrawChallenges(proof_builder)
                /\ expr_state' = "ProverPanicked"
           ELSE /\ proof_builder' = GroupByProverEvaluate(proof_builder, challenges)
                /\ expr_state' = "ProofEvaluated"
    /\ UNCHANGED <<literal, query, node, count_builder, result_builder, verification_builder,
                   count_result, verify_result>>

(***************************************************************************)
(* The verify pass.                                                         *)
(***************************************************************************)
\* bit b of row i of the table (rows from 1)
RECURSIVE RowBit(_, _)
RowBit(i, b) == IF b = 1 THEN (i - 1) % 2 ELSE RowBit(((i - 1) \div 2) + 1, b - 1)

\* the multilinear Lagrange basis polynomial of row i at a point
Lagrange(point, i) ==
    ProdScalars([b \in 1..Len(point) |->
        IF RowBit(i, b) = 1 THEN point[b] ELSE Sub(1, point[b])])

\* the evaluation at a point of the multilinear extension of a vector
Evaluate(point, v) ==
    SumScalars([i \in 1..Len(v) |-> Mul(Lagrange(point, i), v[i] % P)])

\* the sumcheck's random point and the point of the random row selector
SumcheckRandoms ==
    {[point |-> <<2, 3, 4>>, rho |-> <<3, 1, 2>>],
     [point |-> <<4, 1, 2>>, rho |-> <<2, 2, 3>>]}

\* an Option<Scalar>
Some(x) == [some |-> TRUE, value |-> x]

None == [some |-> FALSE, value |-> 0]

\* the builder the verifier makes of the proof: the claimed evaluations, in the
\* order the prover produced what they are evaluations of
VerificationBuilderOf(rb, pb, random, indexes_valid) ==
    [EmptyVerificationBuilder EXCEPT !.mle_evaluations =
        [one_evaluation |-> Evaluate(random.point, Filled(table_length, 1)),
         random_evaluation |->
            Evaluate(random.point, [i \in 1..table_length |-> Lagrange(random.rho, i)]),
         result_indexes_evaluation |->
            IF indexes_valid
            THEN Some(Evaluate(random.point, Filled(rb.result_index_vector.hi, 1)))
            ELSE None,
         anchored_evaluations |->
            [k \in 1..Len(pb.anchored) |-> Evaluate(random.point, pb.anchored[k])],
         pcs_evaluations |->
            [k \in 1..Len(pb.pcs) |-> Evaluate(random.point, pb.pcs[k])],
         result_evaluations |->
            [k \in 1..Len(rb.result_columns) |->
                Evaluate(random.point, rb.result_columns[k])]]]

\* the builder the verifier makes of the proof of this evaluation
NewVerificationBuilder(random, indexes_valid) ==
    VerificationBuilderOf(result_builder, proof_builder, random, indexes_valid)

\* VerificationBuilder::consume_anchored_mle: the builder after the call
consume_anchored_mle(vb, item, j) ==
    [vb EXCEPT !.consumed_anchored_mles = @ + 1,
               !.log = Append(@, Call("consume_anchored_mle", item, j))]

\* the evaluation the next consume_anchored_mle call returns
NextAnchoredMle(vb) == vb.mle_evaluations.anchored_evaluations[vb.consumed_anchored_mles + 1]

\* VerificationBuilder::consume_intermediate_mle: the builder after the call
consume_intermediate_mle(vb, item) ==
    [vb EXCEPT !.consumed_pcs_mles = @ + 1,
               !.log = Append(@, Call("consume_intermediate_mle", item, vb.consumed_pcs_mles + 1))]

\* the evaluation the next consume_intermediate_mle call returns
NextIntermediateMle(vb) == vb.mle_evaluations.pcs_evaluations[vb.consumed_pcs_mles + 1]

\* VerificationBuilder::consume_result_mle: the builder after the call
consume_result_mle(vb, item) ==
    [vb EXCEPT !.consumed_result_mles = @ + 1,
               !.log = Append(@, Call("consume_result_mle", item, vb.consumed_result_mles + 1))]

\* the evaluation the next consume_result_mle call returns
NextResultMle(vb) == vb.mle_evaluations.result_evaluations[vb.consumed_result_mles + 1]

\* VerificationBuilder::consume_post_result_challenge: the builder after the call
verifier_consume_post_result_challenge(vb, item) ==
    [vb EXCEPT !.consumed_challenges = @ + 1,
               !.log = Append(@, Call("consume_post_result_challenge", item,
                                      vb.consumed_challenges + 1))]

\* VerificationBuilder::produce_sumcheck_subpolynomial_evaluation
produce_sumcheck_subpolynomial_evaluation(vb, eval, item) ==
    [vb EXCEPT !.sumcheck_evaluations = Append(@, eval),
               !.log = Append(@, Call("produce_sumcheck_subpolynomial_evaluation", item,
                                      Len(vb.sumcheck_evaluations) + 1))]

\* the selection's verifier_evaluate: the builder after it
WhereClauseVerifierEvaluate(vb) ==
    LET anchored == consume_anchored_mle(vb, "where_clause", 0)
    IN IF where_clause.kind = "column" THEN anchored
       ELSE LET sel_eval == NextIntermediateMle(anchored)
            IN produce_sumcheck_subpolynomial_evaluation(
                   consume_intermediate_mle(anchored, "where_clause"),
                   Mul(anchored.mle_evaluations.random_evaluation,
                       Sub(Mul(NextAnchoredMle(vb), sel_eval), sel_eval)),
                   "where_clause")

\* the evaluation the selection's verifier_evaluate returns
WhereClauseEval(vb) ==
    IF where_clause.kind = "column" THEN NextAnchoredMle(vb)
    ELSE NextIntermediateMle(consume_anchored_mle(vb, "where_clause", 0))

\* ColumnExpr::verifier_evaluate of the first k expressions of a list: the builder after them
RECURSIVE ColumnExprsVerifierEvaluate(_, _, _)
ColumnExprsVerifierEvaluate(vb, item, k) ==
    IF k = 0 THEN vb
    ELSE consume_anchored_mle(ColumnExprsVerifierEvaluate(vb, item, k - 1), item, k)

\* the evaluations k consecutive consume calls return
ConsumedEvals(queue, consumed, k) == [j \in 1..k |-> queue[consumed + j]]

\* repeat_with(|| builder.consume_result_mle()).take(k): the builder after the calls
RECURSIVE ConsumeResultMles(_, _, _)
ConsumeResultMles(vb, item, k) ==
    IF k = 0 THEN vb
    ELSE consume_result_mle(ConsumeResultMles(vb, item, k - 1), item)

\* ConsumeGroupByWitnesses with g_out_star consumed before g_in_star
ConsumeGroupByWitnessesSwapped(vb) ==
    consume_intermediate_mle(consume_intermediate_mle(vb, "g_out_star"), "g_in_star")

\* the witness evaluations of verify_group_by in the order they are consumed
ConsumeGroupByWitnesses(vb) ==
    consume_intermediate_mle(consume_intermediate_mle(vb, "g_in_star"), "g_out_star")

\* the evaluation verify_group_by binds to g_in_star_eval
GInStarEval(vb) == NextIntermediateMle(vb)

\* the evaluation verify_group_by binds to g_out_star_eval
GOutStarEval(vb) == NextIntermediateMle(consume_intermediate_mle(vb, "g_in_star"))

\* g_in_star * sel_in * sum_in_fold - g_out_star * sum_out_bar_fold
ZeroSumEvaluation(gis_eval, sel_in_eval, sif_eval, gos_eval, sobf_eval) ==
    Sub(Mul(Mul(gis_eval, sel_in_eval), sif_eval), Mul(gos_eval, sobf_eval))

\* star * fold - one_eval, not weighted by the random row selector
InverseEvaluationUnweighted(rand_eval, star_eval, fold_eval, one_eval) ==
    Sub(Mul(star_eval, fold_eval), one_eval)

\* rand_eval * (star * fold - one_eval)
InverseEvaluation(rand_eval, star_eval, fold_eval, one_eval) ==
    Mul(rand_eval, Sub(Mul(star_eval, fold_eval), one_eval))

\* the identity evaluations of verify_group_by in the order they are registered
ProduceGroupByEvaluations(vb, zero_sum, identity_in, identity_out) ==
    produce_sumcheck_subpolynomial_evaluation(
        produce_sumcheck_subpolynomial_evaluation(
            produce_sumcheck_subpolynomial_evaluation(vb, zero_sum, "zero_sum"),
            identity_in, "g_in_star"),
        identity_out, "g_out_star")

\* g_in_fold_eval with alpha added as it is, not scaled by one_eval
g_in_fold_eval_unscaled_alpha(alpha, beta, one_eval, g_in_evals) ==
    Add(alpha, fold_vals(beta, g_in_evals))

\* g_in_fold = alpha + sum beta^j * g_in[j]
g_in_fold_eval(alpha, beta, one_eval, g_in_evals) ==
    Add(Mul(alpha, one_eval), fold_vals(beta, g_in_evals))

\* g_out_bar_fold = alpha + sum beta^j * g_out_bar[j]
g_out_bar_fold_eval(alpha, beta, one_eval, g_out_evals) ==
    Add(Mul(alpha, one_eval), fold_vals(beta, g_out_evals))

\* sum_in_fold = 1 + sum beta^(j+1) * sum_in[j]
sum_in_fold_eval(beta, one_eval, sum_in_evals) ==
    Add(one_eval, Mul(beta, fold_vals(beta, sum_in_evals)))

\* sum_out_bar_fold = count_out_bar + sum beta^(j+1) * sum_out_bar[j]
sum_out_bar_fold_eval(beta, count_out_eval, sum_out_evals) ==
    Add(count_out_eval, Mul(beta, fold_vals(beta, sum_out_evals)))

\* verify_group_by
verify_group_by(vb, alpha, beta, g_in_evals, sum_in_evals, sel_in_eval, g_out_evals, sum_out_evals, count_out_eval) ==
    LET one_eval  == vb.mle_evaluations.one_evaluation
        rand_eval == vb.mle_evaluations.random_evaluation
        gif_eval  == g_in_fold_eval(alpha, beta, one_eval, g_in_evals)
        gof_eval  == g_out_bar_fold_eval(alpha, beta, one_eval, g_out_evals)
        sif_eval  == sum_in_fold_eval(beta, one_eval, sum_in_evals)
        sobf_eval == sum_out_bar_fold_eval(beta, count_out_eval, sum_out_evals)
        g_in_star_eval  == GInStarEval(vb)
        g_out_star_eval == GOutStarEval(vb)
    IN ProduceGroupByEvaluations(
           ConsumeGroupByWitnesses(vb),
           ZeroSumEvaluation(g_in_star_eval, sel_in_eval, sif_eval, g_out_star_eval, sobf_eval),
           InverseEvaluation(rand_eval, g_in_star_eval, gif_eval, one_eval),
           InverseEvaluation(rand_eval, g_out_star_eval, gof_eval, one_eval))

\* the children of the node in the order verifier_evaluate evaluates them
ChildrenVerifierEvaluate(vb) ==
    ColumnExprsVerifierEvaluate(
        ColumnExprsVerifierEvaluate(WhereClauseVerifierEvaluate(vb),
                                    "group_by_exprs", Len(group_by_exprs)),
        "sum_expr", Len(sum_expr))

\* indexes_eval with a default in place of an absent evaluation
indexes_eval_or_default(vb) ==
    IF vb.mle_evaluations.result_indexes_evaluation.some
    THEN vb.mle_evaluations.result_indexes_evaluation
    ELSE Some(0)

\* builder.mle_evaluations.result_indexes_evaluation, an Option the ok_or turns into a Result
indexes_eval(vb) == vb.mle_evaluations.result_indexes_evaluation

\* ConsumeGroupByResults without the count column's evaluation
ConsumeGroupByResultsNoCount(vb) ==
    ConsumeResultMles(ConsumeResultMles(vb, "group_by", Len(group_by_exprs)),
                      "sum", Len(sum_expr))

\* the result evaluations in the order verifier_evaluate consumes them
ConsumeGroupByResults(vb) ==
    consume_result_mle(
        ConsumeResultMles(ConsumeResultMles(vb, "group_by", Len(group_by_exprs)),
                          "sum", Len(sum_expr)),
        "count")

\* VerifierDrawChallenges with the first challenge bound to beta
VerifierDrawChallengesBetaFirst(vb) ==
    verifier_consume_post_result_challenge(
        verifier_consume_post_result_challenge(vb, "beta"), "alpha")

\* the two challenges in the order verifier_evaluate draws them
VerifierDrawChallenges(vb) ==
    verifier_consume_post_result_challenge(
        verifier_consume_post_result_challenge(vb, "alpha"), "beta")

\* the challenge verifier_evaluate binds to alpha
VerifierAlpha(vb, challenges) == NextChallenge(vb, challenges)

\* the challenge verifier_evaluate binds to beta
VerifierBeta(vb, challenges) ==
    NextChallenge(verifier_consume_post_result_challenge(vb, "alpha"), challenges)

\* GroupByExpr::verifier_evaluate: the Result and the builder it leaves
GroupByVerifierEvaluate(vb, challenges) ==
    LET g  == Len(group_by_exprs)
        s  == Len(sum_expr)
        v1 == WhereClauseVerifierEvaluate(vb)
        v3 == ChildrenVerifierEvaluate(vb)
        where_eval      == WhereClauseEval(vb)
        group_by_evals  ==
            ConsumedEvals(v1.mle_evaluations.anchored_evaluations, v1.consumed_anchored_mles, g)
        aggregate_evals ==
            ConsumedEvals(v1.mle_evaluations.anchored_evaluations,
                          v1.consumed_anchored_mles + g, s)
    IN IF ~indexes_eval(v3).some
       THEN [result |-> Err("invalid indexes", 0), builder |-> v3]
       ELSE LET v4 == ConsumeGroupByResults(v3)
                results == v3.mle_evaluations.result_evaluations
                group_by_result_columns_evals == ConsumedEvals(results, v3.consumed_result_mles, g)
                sum_result_columns_evals ==
                    ConsumedEvals(results, v3.consumed_result_mles + g, s)
                count_column_eval == results[v3.consumed_result_mles + g + s + 1]
                alpha == VerifierAlpha(v4, challenges)
                beta  == VerifierBeta(v4, challenges)
            IN [result |-> Ok,
                builder |-> verify_group_by(VerifierDrawChallenges(v4), alpha, beta,
                                group_by_evals, aggregate_evals, where_eval,
                                group_by_result_columns_evals, sum_result_columns_evals,
                                count_column_eval)]

\* the verify pass over the proof, at the points the sumcheck handed down
VerifierEvaluate ==
    /\ expr_state = "ProofEvaluated"
    /\ \E random \in SumcheckRandoms, indexes_valid \in BOOLEAN :
        LET res == GroupByVerifierEvaluate(NewVerificationBuilder(random, indexes_valid),
                                           post_result_challenges)
        IN /\ verification_builder' = res.builder
           /\ verify_result' = res.result
           /\ expr_state' = IF res.result.ok THEN "VerifyEvaluated" ELSE "VerifyFailed"
    /\ UNCHANGED <<literal, query, node, count_builder, result_builder, post_result_challenges, proof_builder,
                   count_result>>

Next ==
    \/ Count
    \/ ResultEvaluate
    \/ ProverEvaluate
    \/ VerifierEvaluate

Spec == Init /\ [][Next]_vars

(***************************************************************************)
(* The plaintext path alone, count pass then result pass, over wider tables. *)
(***************************************************************************)
InitResult ==
    /\ QueryIdle
    /\ LiteralIdle
    /\ table_length \in 0..MaxN
    /\ \E g \in 0..MaxG, s \in 0..MaxS :
        /\ table_length * (g + s) <= MaxResultCells
        /\ group_by_exprs \in [1..g -> [1..table_length -> ResultColumnValues]]
        /\ sum_expr \in [1..s -> [1..table_length -> ResultColumnValues]]
    /\ count_errors = {}
    /\ \E kind \in WhereKinds, sel \in [1..table_length -> BOOLEAN] :
        where_clause = [kind |-> kind, sel |-> sel]
    /\ expr_state = "Uninitialized"
    /\ count_builder = EmptyCountBuilder
    /\ result_builder = EmptyResultBuilder
    /\ post_result_challenges = <<>>
    /\ proof_builder = EmptyProofBuilder
    /\ verification_builder = EmptyVerificationBuilder
    /\ count_result = Pending
    /\ verify_result = Pending

NextResult ==
    \/ Count
    \/ ResultEvaluate

SpecResult == InitResult /\ [][NextResult]_vars

(***************************************************************************)
(* The prover's passes invoked in any order.  The passes are methods of a   *)
(* trait over &self, each given a builder of its own: a caller can invoke   *)
(* result_evaluate on a node whose count was never called, and              *)
(* prover_evaluate with a builder for which no result pass ran.             *)
(***************************************************************************)
\* result_evaluate on a node that has not been counted: the method reads the
\* node and its ResultBuilder only, and runs as it does after a count
ResultEvaluateUncounted ==
    /\ expr_state = "Uninitialized"
    /\ result_builder' = GroupByResultEvaluate(result_builder)
    /\ expr_state' = "ResultEvaluated"
    /\ UNCHANGED <<literal, query, node, count_builder, post_result_challenges,
                   proof_builder, verification_builder, count_result, verify_result>>

\* prover_evaluate before any result pass: no post-result challenge was requested,
\* the children are evaluated and the first consume_post_result_challenge has
\* no challenge to return
ProverEvaluateBeforeResult ==
    /\ expr_state \in {"Uninitialized", "Counted"}
    /\ result_builder.num_post_result_challenges = 0
    /\ proof_builder' = ChildrenProverEvaluate(proof_builder)
    /\ expr_state' = "ProverPanicked"
    /\ UNCHANGED <<literal, query, node, count_builder, result_builder, post_result_challenges,
                   verification_builder, count_result, verify_result>>

NextAnyOrder ==
    \/ Count
    \/ ResultEvaluate
    \/ ProverEvaluate
    \/ ResultEvaluateUncounted
    \/ ProverEvaluateBeforeResult

SpecAnyOrder == Init /\ [][NextAnyOrder]_vars

(***************************************************************************)
(* QueryContext (crates/proof-of-sql/src/sql/parse/query_context.rs): the    *)
(* state the query analysis keeps while it visits a parsed query, before     *)
(* the query is lowered to a group-by node.  Each method is an operator      *)
(* from the context (and the arguments) to the context after the call and    *)
(* what the call returned.                                                   *)
(***************************************************************************)
\* the column identifiers and the result aliases of the queries analysed
Identifiers == {"a", "b"}

Aliases == {"x", "y"}

\* the table of the queries analysed
TableRefs == {"t"}

\* ColumnRef::new
ColumnRef(table_ref, column_id, column_type) ==
    [table_ref |-> table_ref, column_id |-> column_id, column_type |-> column_type]

\* the ColumnRef the analysis resolves a column identifier to
ColumnRefOf(column) == ColumnRef("t", column, "BigInt")

\* intermediate_ast::Expression, the shapes the analysis tells apart
Column(column) == [kind |-> "Column", column |-> column]

Literal == [kind |-> "Literal"]

Aggregation(op, expr) == [kind |-> "Aggregation", op |-> op, expr |-> expr]

AliasedResultExpr(alias, expr) == [alias |-> alias, expr |-> expr]

\* a ConversionResult: Ok of a value, Err of a ConversionError, or a panic
QOk(value) == [kind |-> "Ok", value |-> value]

QErr(error, name) == [kind |-> "Err", error |-> error, name |-> name]

QPanic(message) == [kind |-> "Panic", message |-> message]

Returned(context, result) == [context |-> context, result |-> result]

\* QueryContext::check_col_ref_counter
check_col_ref_counter(ctx) ==
    IF ctx.col_ref_counter = ctx.fixed_col_ref_counter
    THEN QErr("InvalidExpression",
              "at least one column must be referenced in the result expression")
    ELSE QOk("unit")

\* set_in_agg_scope(true) with the entry made even inside an aggregation scope
set_in_agg_scope_nesting(ctx, in_agg_scope) ==
    IF ~in_agg_scope
    THEN IF ~ctx.in_agg_scope
         THEN Returned(ctx, QPanic("aggregation context needs to be set before exiting"))
         ELSE LET left == [ctx EXCEPT !.in_agg_scope = FALSE]
              IN Returned(left, check_col_ref_counter(left))
    ELSE Returned([ctx EXCEPT !.agg_counter = @ + 1,
                              !.in_agg_scope = TRUE,
                              !.fixed_col_ref_counter = ctx.col_ref_counter],
                  QOk("unit"))

\* QueryContext::set_in_agg_scope
set_in_agg_scope(ctx, in_agg_scope) ==
    IF ~in_agg_scope
    THEN IF ~ctx.in_agg_scope
         THEN Returned(ctx, QPanic("aggregation context needs to be set before exiting"))
         ELSE LET left == [ctx EXCEPT !.in_agg_scope = FALSE]
              IN Returned(left, check_col_ref_counter(left))
    ELSE IF ctx.in_agg_scope
         THEN Returned(ctx, QErr("InvalidExpression", "nested aggregations are not supported"))
         ELSE Returned([ctx EXCEPT !.agg_counter = @ + 1,
                                   !.in_agg_scope = TRUE,
                                   !.fixed_col_ref_counter = ctx.col_ref_counter],
                       QOk("unit"))

\* QueryContext::toggle_result_scope
toggle_result_scope(ctx) == [ctx EXCEPT !.in_result_scope = ~@]

\* push_result_column_ref with first_result_col_out_agg_scope written at every call
push_result_column_ref_overwriting(ctx, column) ==
    IF ctx.in_result_scope
    THEN [ctx EXCEPT !.result_column_set = @ \cup {column},
                     !.first_result_col_out_agg_scope =
                        IF ~ctx.in_agg_scope THEN Present(column) ELSE @]
    ELSE ctx

\* QueryContext::push_result_column_ref
push_result_column_ref(ctx, column) ==
    IF ctx.in_result_scope
    THEN [ctx EXCEPT !.result_column_set = @ \cup {column},
                     !.first_result_col_out_agg_scope =
                        IF ~ctx.in_agg_scope /\ ~@.some THEN Present(column) ELSE @]
    ELSE ctx

\* HashMap::insert
MapInsert(map, key, value) ==
    [k \in DOMAIN map \cup {key} |-> IF k = key THEN value ELSE map[k]]

\* QueryContext::push_column_ref
push_column_ref(ctx, column, column_ref) ==
    LET counted == [ctx EXCEPT !.col_ref_counter = @ + 1]
        pushed  == push_result_column_ref(counted, column)
    IN [pushed EXCEPT !.column_mapping = MapInsert(@, column, column_ref)]

\* push_aliased_result_expr with the check of the column references left out
push_aliased_result_expr_unchecked(ctx, expr) ==
    IF ~ctx.has_visited_group_by
    THEN Returned(ctx, QPanic("Group by must be visited first"))
    ELSE Returned([ctx EXCEPT !.res_aliased_exprs = Append(@, expr),
                              !.fixed_col_ref_counter = ctx.col_ref_counter],
                  QOk("unit"))

\* QueryContext::push_aliased_result_expr
push_aliased_result_expr(ctx, expr) ==
    IF ~ctx.has_visited_group_by
    THEN Returned(ctx, QPanic("Group by must be visited first"))
    ELSE IF check_col_ref_counter(ctx).kind = "Err"
         THEN Returned(ctx, check_col_ref_counter(ctx))
         ELSE Returned([ctx EXCEPT !.res_aliased_exprs = Append(@, expr),
                                   !.fixed_col_ref_counter = ctx.col_ref_counter],
                       QOk("unit"))

\* the elements of a list
Range(list) == {list[k] : k \in 1..Len(list)}

\* QueryContext::set_group_by_exprs
set_group_by_exprs(ctx, exprs) ==
    [ctx EXCEPT !.group_by_exprs = exprs,
                !.result_column_set = @ \cup Range(exprs),
                !.has_visited_group_by = TRUE]

\* is_in_group_by_exprs with the column looked up whatever the scope
is_in_group_by_exprs_any_scope(ctx, column) ==
    IF ctx.group_by_exprs = <<>>
    THEN QOk(FALSE)
    ELSE IF column \in Range(ctx.group_by_exprs)
         THEN QOk(TRUE)
         ELSE QErr("InvalidGroupByColumnRef", column)

\* QueryContext::is_in_group_by_exprs
is_in_group_by_exprs(ctx, column) ==
    IF ctx.group_by_exprs = <<>> \/ ctx.in_agg_scope \/ ~ctx.in_result_scope
    THEN QOk(FALSE)
    ELSE IF column \in Range(ctx.group_by_exprs)
         THEN QOk(TRUE)
         ELSE QErr("InvalidGroupByColumnRef", column)

\* how many of the result expressions have the alias
AliasCount(exprs, alias) == Cardinality({k \in 1..Len(exprs) : exprs[k].alias = alias})

\* the positions of the result expressions whose alias is not that of exactly one of them
NonUniqueAliases(exprs) == {k \in 1..Len(exprs) : AliasCount(exprs, exprs[k].alias) # 1}

\* the least of a non-empty set of positions
Least(positions) == CHOOSE k \in positions : \A j \in positions : k <= j

\* get_aliased_result_exprs naming the last expression whose alias is not unique
get_aliased_result_exprs_naming_last(ctx) ==
    LET exprs == ctx.res_aliased_exprs
        dup   == NonUniqueAliases(exprs)
    IN IF exprs = <<>> THEN QPanic("empty aliased exprs")
       ELSE IF dup # {}
       THEN QErr("DuplicateResultAlias",
                 exprs[CHOOSE k \in dup : \A j \in dup : k >= j].alias)
       ELSE IF /\ ctx.group_by_exprs = <<>>
               /\ ctx.agg_counter > 0
               /\ ctx.first_result_col_out_agg_scope.some
       THEN QErr("InvalidGroupByColumnRef", ctx.first_result_col_out_agg_scope.value)
       ELSE QOk(exprs)

\* QueryContext::get_aliased_result_exprs
get_aliased_result_exprs(ctx) ==
    LET exprs == ctx.res_aliased_exprs
        dup   == NonUniqueAliases(exprs)
    IN IF exprs = <<>> THEN QPanic("empty aliased exprs")
       ELSE IF dup # {}
       THEN QErr("DuplicateResultAlias", exprs[Least(dup)].alias)
       ELSE IF /\ ctx.group_by_exprs = <<>>
               /\ ctx.agg_counter > 0
               /\ ctx.first_result_col_out_agg_scope.some
       THEN QErr("InvalidGroupByColumnRef", ctx.first_result_col_out_agg_scope.value)
       ELSE QOk(exprs)

\* QueryContext::set_table_ref
set_table_ref(ctx, table) ==
    IF ctx.table.some
    THEN Returned(ctx, QPanic("assertion failed: self.table.is_none()"))
    ELSE Returned([ctx EXCEPT !.table = Present(table)], QOk("unit"))

\* QueryContext::set_where_expr
set_where_expr(ctx, where_expr) == [ctx EXCEPT !.where_expr = where_expr]

\* an expression is op(Column(_))
IsAggregationOfColumn(expr, op) ==
    /\ expr.kind = "Aggregation"
    /\ expr.op = op
    /\ expr.expr.kind = "Column"

\* the group-by check with each result column looked up anywhere in the list
group_by_compliance_any_position(ctx) ==
    \A k \in 1..Len(ctx.group_by_exprs) :
        /\ IsAggregationOfColumn(ctx.res_aliased_exprs[k].expr, "First")
        /\ ctx.res_aliased_exprs[k].expr.expr.column \in Range(ctx.group_by_exprs)

\* the group-by check: the first g result expressions zipped with the group-by list
group_by_compliance(ctx) ==
    \A k \in 1..Len(ctx.group_by_exprs) :
        /\ IsAggregationOfColumn(ctx.res_aliased_exprs[k].expr, "First")
        /\ ctx.res_aliased_exprs[k].expr.expr.column = ctx.group_by_exprs[k]

\* the result expressions between the group-by columns and the last one
sum_expr_columns(ctx) ==
    SubSeq(ctx.res_aliased_exprs, Len(ctx.group_by_exprs) + 1, Len(ctx.res_aliased_exprs) - 1)

\* the positions of sum_expr_columns that are not Sum(Column(_))
NotSums(ctx) ==
    {k \in 1..Len(sum_expr_columns(ctx)) :
        ~IsAggregationOfColumn(sum_expr_columns(ctx)[k].expr, "Sum")}

\* the positions the collect into an Option visits: up to the first that maps to None
SumsVisited(ctx) ==
    {k \in 1..Len(sum_expr_columns(ctx)) : \A j \in NotSums(ctx) : k < j}

\* the sum check meets a Sum over a column without a column mapping before
\* it meets another shape: the expect on the mapping panics
sum_expr_panics(ctx) ==
    \E k \in SumsVisited(ctx) :
        sum_expr_columns(ctx)[k].expr.expr.column \notin DOMAIN ctx.column_mapping

\* the sum check: Some of the (ColumnExpr, ColumnField) pairs, or None
sum_expr_of(ctx) ==
    IF NotSums(ctx) # {}
    THEN [some |-> FALSE, value |-> <<>>]
    ELSE [some |-> TRUE,
          value |->
            [k \in 1..Len(sum_expr_columns(ctx)) |->
                LET res   == sum_expr_columns(ctx)[k]
                    ident == res.expr.expr.column
                    type  == ctx.column_mapping[ident].column_type
                IN [column_expr |-> ColumnRef(ctx.table.value, ident, type),
                    field |-> [name |-> res.alias, type |-> type]]]]

\* the count check: the last result expression is Count(Column(_))
count_column_compliant(ctx) ==
    IsAggregationOfColumn(ctx.res_aliased_exprs[Len(ctx.res_aliased_exprs)].expr, "Count")

\* None and Some(GroupByExpr::new(..))
NoGroupByExpr == [some |-> FALSE]

SomeGroupByExpr(group_by, sums, count_alias, table, where_expr) ==
    [some |-> TRUE, group_by_exprs |-> group_by, sum_expr |-> sums,
     count_alias |-> count_alias, table |-> table, where_clause |-> where_expr]

\* the group-by identifiers that have no column mapping
MissingColumns(ctx) ==
    {k \in 1..Len(ctx.group_by_exprs) : ctx.group_by_exprs[k] \notin DOMAIN ctx.column_mapping}

\* TryFrom<&QueryContext> for Option<GroupByExpr>; the where clause, when there
\* is one, is taken to build
try_from(ctx) ==
    IF ~ctx.where_expr.some THEN QOk(NoGroupByExpr)
    ELSE IF ~ctx.table.some
    THEN QErr("InvalidExpression", "QueryContext has no table_ref")
    ELSE IF MissingColumns(ctx) # {}
    THEN QErr("MissingColumn", ctx.group_by_exprs[Least(MissingColumns(ctx))])
    ELSE IF Len(ctx.res_aliased_exprs) < Len(ctx.group_by_exprs) + 1
    THEN QOk(NoGroupByExpr)
    ELSE IF sum_expr_panics(ctx)
    THEN QPanic("QueryContext should never allow unknown cols to be in sum")
    ELSE IF ~group_by_compliance(ctx) \/ ~sum_expr_of(ctx).some \/ ~count_column_compliant(ctx)
    THEN QOk(NoGroupByExpr)
    ELSE QOk(SomeGroupByExpr(
                [k \in 1..Len(ctx.group_by_exprs) |-> ctx.column_mapping[ctx.group_by_exprs[k]]],
                sum_expr_of(ctx).value,
                ctx.res_aliased_exprs[Len(ctx.res_aliased_exprs)].alias,
                ctx.table.value,
                ctx.where_expr.value))

\* the record of a call: the method, its argument, what it returned, the
\* context it was made on and what had been observed when it was made
QueryCall(op, arg, result) ==
    [op |-> op, arg |-> arg, result |-> result,
     before |-> query_context, seen |-> query_history]

\* no call has panicked: a panic ends the analysis
QueryRunning == query_call.result.kind # "Panic"

\* a call of set_in_agg_scope
SetInAggScope ==
    /\ QueryRunning
    /\ \E in_agg_scope \in BOOLEAN :
        LET ret == set_in_agg_scope(query_context, in_agg_scope)
            entered == in_agg_scope /\ ret.result.kind = "Ok"
        IN /\ ret.context.agg_counter <= MaxAggregations
           /\ query_context' = ret.context
           /\ query_call' = QueryCall("set_in_agg_scope", in_agg_scope, ret.result)
           /\ query_history' =
                IF entered
                THEN [query_history EXCEPT !.agg_entries = @ + 1,
                                           !.refs_since_entry = 0,
                                           !.refs_since_mark = 0]
                ELSE query_history
    /\ UNCHANGED <<evaluation, literal>>

\* a call of toggle_result_scope
ToggleResultScope ==
    /\ QueryRunning
    /\ query_context' = toggle_result_scope(query_context)
    /\ query_call' = QueryCall("toggle_result_scope", "", QOk("unit"))
    /\ UNCHANGED <<query_history, evaluation, literal>>

\* a call of push_column_ref, of at most max calls
PushColumnRefUpTo(max) ==
    /\ QueryRunning
    /\ query_context.col_ref_counter < max
    /\ \E column \in Identifiers :
        /\ query_context' = push_column_ref(query_context, column, ColumnRefOf(column))
        /\ query_call' = QueryCall("push_column_ref", column, QOk("unit"))
        /\ query_history' =
             [query_history EXCEPT
                 !.refs_since_entry = @ + 1,
                 !.refs_since_mark = @ + 1,
                 !.bare_columns =
                    IF query_context.in_result_scope /\ ~query_context.in_agg_scope
                    THEN Append(@, column) ELSE @]
    /\ UNCHANGED <<evaluation, literal>>

\* a call of push_aliased_result_expr with one of the expressions, of at most
\* max expressions pushed
PushAliasedResultExprOf(exprs, max) ==
    /\ QueryRunning
    /\ Len(query_context.res_aliased_exprs) < max
    /\ \E expr \in exprs :
        LET ret == push_aliased_result_expr(query_context, expr)
        IN /\ query_context' = ret.context
           /\ query_call' = QueryCall("push_aliased_result_expr", expr, ret.result)
           /\ query_history' =
                IF ret.result.kind = "Ok"
                THEN [query_history EXCEPT !.refs_since_mark = 0]
                ELSE query_history
    /\ UNCHANGED <<evaluation, literal>>

\* a call of set_group_by_exprs with one of the lists; the analysis visits the
\* GROUP BY clause of a query once
SetGroupByExprsOf(lists) ==
    /\ QueryRunning
    /\ ~query_context.has_visited_group_by
    /\ \E exprs \in lists :
        /\ query_context' = set_group_by_exprs(query_context, exprs)
        /\ query_call' = QueryCall("set_group_by_exprs", exprs, QOk("unit"))
    /\ UNCHANGED <<query_history, evaluation, literal>>

\* a call of is_in_group_by_exprs
IsInGroupByExprs ==
    /\ QueryRunning
    /\ \E column \in Identifiers :
        query_call' = QueryCall("is_in_group_by_exprs", column,
                                is_in_group_by_exprs(query_context, column))
    /\ UNCHANGED <<query_context, query_history, evaluation, literal>>

\* a call of get_aliased_result_exprs
GetAliasedResultExprs ==
    /\ QueryRunning
    /\ query_call' = QueryCall("get_aliased_result_exprs", "",
                               get_aliased_result_exprs(query_context))
    /\ UNCHANGED <<query_context, query_history, evaluation, literal>>

\* the result expressions of the scope analysis: a count under either alias
ScopeResultExprs ==
    {AliasedResultExpr(alias, Aggregation("Count", Column("a"))) : alias \in Aliases}

\* the GROUP BY clauses of the scope analysis: none, or the column a
ScopeGroupByLists == {<<>>, <<"a">>}

PushColumnRef == PushColumnRefUpTo(MaxColumnRefs)

PushAliasedResultExpr == PushAliasedResultExprOf(ScopeResultExprs, MaxResultExprs)

SetGroupByExprs == SetGroupByExprsOf(ScopeGroupByLists)

\* an evaluation that has not begun: the empty table and a node without columns
EvaluationIdle ==
    /\ table_length = 0
    /\ group_by_exprs = <<>>
    /\ sum_expr = <<>>
    /\ where_clause = [kind |-> "composite", sel |-> <<>>]
    /\ count_errors = {}
    /\ expr_state = "Uninitialized"
    /\ count_builder = EmptyCountBuilder
    /\ result_builder = EmptyResultBuilder
    /\ post_result_challenges = <<>>
    /\ proof_builder = EmptyProofBuilder
    /\ verification_builder = EmptyVerificationBuilder
    /\ count_result = Pending
    /\ verify_result = Pending

InitQuery == QueryIdle /\ EvaluationIdle /\ LiteralIdle

\* the calls the analysis makes while it visits the result expressions of a
\* query, in any order
NextQuery ==
    \/ SetInAggScope
    \/ ToggleResultScope
    \/ PushColumnRef
    \/ PushAliasedResultExpr
    \/ SetGroupByExprs
    \/ IsInGroupByExprs
    \/ GetAliasedResultExprs

SpecQuery == InitQuery /\ [][NextQuery]_vars

\* the calls that push result expressions and read them back, over longer lists
PushColumnRefOfAlias == PushColumnRefUpTo(MaxAliasedExprs)

PushAliasedResultExprOfAlias == PushAliasedResultExprOf(ScopeResultExprs, MaxAliasedExprs)

NextAlias ==
    \/ SetGroupByExprs
    \/ PushColumnRefOfAlias
    \/ PushAliasedResultExprOfAlias
    \/ GetAliasedResultExprs

SpecAlias == InitQuery /\ [][NextAlias]_vars

(***************************************************************************)
(* The conversion of a QueryContext to a group-by node.                     *)
(***************************************************************************)
\* a call of set_table_ref
SetTableRef ==
    /\ QueryRunning
    /\ \E table \in TableRefs :
        LET ret == set_table_ref(query_context, table)
        IN /\ query_context' = ret.context
           /\ query_call' = QueryCall("set_table_ref", table, ret.result)
    /\ UNCHANGED <<query_history, evaluation, literal>>

\* a call of set_where_expr, with a where clause or with none
SetWhereExpr ==
    /\ QueryRunning
    /\ \E where_expr \in {Absent, Present("w")} :
        /\ query_context' = set_where_expr(query_context, where_expr)
        /\ query_call' = QueryCall("set_where_expr", where_expr, QOk("unit"))
    /\ UNCHANGED <<query_history, evaluation, literal>>

\* the conversion of the context as it stands
TryFromQueryContext ==
    /\ QueryRunning
    /\ query_call' = QueryCall("try_from", "", try_from(query_context))
    /\ UNCHANGED <<query_context, query_history, evaluation, literal>>

\* the shapes of the result expressions converted
ConvertExprs ==
    {Aggregation("First", Column("a")), Aggregation("First", Column("b")),
     Aggregation("First", Literal),
     Aggregation("Sum", Column("a")), Aggregation("Sum", Literal),
     Aggregation("Count", Column("a")), Aggregation("Count", Literal),
     Column("a")}

\* the alias of the k-th result expression of a converted query
PositionAliases == <<"x", "y", "z", "w">>

\* the expressions the next push can push: a shape under the alias of its position
ConvertResultExprs ==
    {AliasedResultExpr(PositionAliases[Len(query_context.res_aliased_exprs) + 1], expr) :
        expr \in ConvertExprs}

\* the GROUP BY clauses converted
ConvertGroupByLists == {<<>>, <<"a">>, <<"a", "b">>}

PushAliasedResultExprOfConvert ==
    PushAliasedResultExprOf(ConvertResultExprs, MaxResultExprs)

SetGroupByExprsOfConvert == SetGroupByExprsOf(ConvertGroupByLists)

NextConvert ==
    \/ SetTableRef
    \/ SetWhereExpr
    \/ SetGroupByExprsOfConvert
    \/ PushColumnRef
    \/ PushAliasedResultExprOfConvert
    \/ TryFromQueryContext

SpecConvert == InitQuery /\ [][NextConvert]_vars

(***************************************************************************)
(* IntermediateDecimal (crates/proof-of-sql-parser/src/                      *)
(* intermediate_decimal.rs): a decimal literal, a BigDecimal of an unscaled  *)
(* integer and a scale, and its conversion to the signed integer types.      *)
(* i64 and i128 are modelled by signed integers of I64Bits and I128Bits bits.*)
(***************************************************************************)
\* the widths that stand for i64 and i128
I64Bits == 4

I128Bits == 6

\* 10^k
RECURSIVE ten_to_the(_)
ten_to_the(k) == IF k = 0 THEN 1 ELSE 10 * ten_to_the(k - 1)

\* 2^k
RECURSIVE two_to_the(_)
two_to_the(k) == IF k = 0 THEN 1 ELSE 2 * two_to_the(k - 1)

\* BigInt division, which truncates toward zero
Quotient(a, b) == IF a >= 0 THEN a \div b ELSE -((-a) \div b)

\* BigDecimal::is_integer: no scale, or an unscaled integer divisible by 10^scale
is_integer(value) ==
    IF value.scale <= 0 THEN TRUE
    ELSE value.int_val % ten_to_the(value.scale) = 0

\* BigDecimal::with_scale: the digits beyond the new scale are cut off
with_scale(value, new_scale) ==
    IF new_scale >= value.scale
    THEN BigDecimal(value.int_val * ten_to_the(new_scale - value.scale), new_scale)
    ELSE BigDecimal(Quotient(value.int_val, ten_to_the(value.scale - new_scale)), new_scale)

\* i64::MIN, i64::MAX, i128::MIN, i128::MAX at the widths of the model
IntMin(bits) == -two_to_the(bits - 1)

IntMax(bits) == two_to_the(bits - 1) - 1

\* ToPrimitive: the integer part as a signed integer of the width, None if it does not fit
to_primitive(value, bits) ==
    LET int_val == with_scale(value, 0).int_val
    IN IF IntMin(bits) <= int_val /\ int_val <= IntMax(bits)
       THEN [some |-> TRUE, value |-> int_val]
       ELSE [some |-> FALSE, value |-> 0]

\* BigDecimal::to_i128
to_i128(value) == to_primitive(value, I128Bits)

\* BigDecimal::to_i64
to_i64(value) == to_primitive(value, I64Bits)

\* a Result<i64, DecimalError> or Result<i128, DecimalError>
DecimalOk(value) == [kind |-> "Ok", value |-> value]

DecimalErr(error) == [kind |-> "Err", error |-> error]

\* TryFrom<IntermediateDecimal> for i128
try_from_for_i128(value) ==
    IF ~is_integer(value) THEN DecimalErr("LossyCast")
    ELSE IF /\ to_i128(value).some
            /\ IntMin(I128Bits) <= to_i128(value).value
            /\ to_i128(value).value <= IntMax(I128Bits)
    THEN DecimalOk(to_i128(value).value)
    ELSE DecimalErr("OutOfRange")

\* the conversion to i64 with the range tested before the fractional part
try_from_for_i64_range_first(value) ==
    IF ~to_i64(value).some THEN DecimalErr("OutOfRange")
    ELSE IF ~is_integer(value) THEN DecimalErr("LossyCast")
    ELSE DecimalOk(to_i64(value).value)

\* TryFrom<IntermediateDecimal> for i64
try_from_for_i64(value) ==
    IF ~is_integer(value) THEN DecimalErr("LossyCast")
    ELSE IF /\ to_i64(value).some
            /\ IntMin(I64Bits) <= to_i64(value).value
            /\ to_i64(value).value <= IntMax(I64Bits)
    THEN DecimalOk(to_i64(value).value)
    ELSE DecimalErr("OutOfRange")

\* the decimals converted
InitDecimal ==
    /\ QueryIdle
    /\ EvaluationIdle
    /\ \E int_val \in (-MaxIntVal)..MaxIntVal, scale \in (-MaxScale)..MaxScale :
        decimal = BigDecimal(int_val, scale)
    /\ decimal_call = NoConversion

\* i128::try_from(decimal)
TryFromForI128 ==
    /\ decimal_call = NoConversion
    /\ decimal_call' = [op |-> "i128::try_from", result |-> try_from_for_i128(decimal)]
    /\ UNCHANGED <<decimal, query, evaluation>>

\* i64::try_from(decimal)
TryFromForI64 ==
    /\ decimal_call = NoConversion
    /\ decimal_call' = [op |-> "i64::try_from", result |-> try_from_for_i64(decimal)]
    /\ UNCHANGED <<decimal, query, evaluation>>

NextDecimal ==
    \/ TryFromForI128
    \/ TryFromForI64

SpecDecimal == InitDecimal /\ [][NextDecimal]_vars

\* the number of decimal digits of a natural number, one for 0
RECURSIVE count_digits(_)
count_digits(n) == IF n < 10 THEN 1 ELSE 1 + count_digits(n \div 10)

\* BigDecimal::digits: the number of digits of the unscaled integer
digits(value) == count_digits(IF value.int_val < 0 THEN -value.int_val ELSE value.int_val)

\* BigDecimal::into_bigint_and_exponent: the unscaled integer and the scale
into_bigint_and_exponent(value) == <<value.int_val, value.scale>>

\* IntermediateDecimal::try_into_bigint_with_precision_and_scale
try_into_bigint_with_precision_and_scale(value, precision, scale) ==
    LET scaled_decimal == with_scale(value, scale)
    IN IF digits(scaled_decimal) > precision THEN DecimalErr("LossyCast")
       ELSE DecimalOk(into_bigint_and_exponent(scaled_decimal)[1])

\* decimal.try_into_bigint_with_precision_and_scale(precision, scale)
TryIntoBigintWithPrecisionAndScale ==
    /\ decimal_call = NoConversion
    /\ \E precision \in 1..MaxPrecision, scale \in (-MaxScale)..MaxScale :
        decimal_call' = [op |-> "try_into_bigint_with_precision_and_scale",
                         precision |-> precision, scale |-> scale,
                         result |-> try_into_bigint_with_precision_and_scale(decimal, precision, scale)]
    /\ UNCHANGED <<decimal, query, evaluation>>

NextBigint == TryIntoBigintWithPrecisionAndScale

SpecBigint == InitDecimal /\ [][NextBigint]_vars

(***************************************************************************)
(* What the outer sumcheck requires of a registered identity.               *)
(***************************************************************************)
\* the value of a term at row i
TermAt(term, i) ==
    Mul(term.coef, ProdScalars([f \in 1..Len(term.factors) |-> At(term.factors[f], i)]))

\* the value of a subpolynomial's terms at row i
TermsAt(terms, i) == SumScalars([k \in 1..Len(terms) |-> TermAt(terms[k], i)])

\* ZeroSum: the rows sum to zero; Identity: every row is zero
Satisfied(type, terms, n) ==
    IF type = "ZeroSum"
    THEN SumScalars([i \in 1..n |-> TermsAt(terms, i)]) = 0
    ELSE \A i \in 1..n : TermsAt(terms, i) = 0

(***************************************************************************)
(* Reading the builders' logs.                                              *)
(***************************************************************************)
NumGroupBy == Len(group_by_exprs)

NumSums == Len(sum_expr)

\* the items the children of the node make their calls for
ChildItems == {"where_clause", "group_by_exprs", "sum_expr"}

\* the positions of a log at which the node itself made the call op
OwnCalls(log, op) == {k \in 1..Len(log) : log[k].op = op /\ log[k].item \notin ChildItems}

\* the positions of a log at which a child of the node made a call
ChildCalls(log) == {k \in 1..Len(log) : log[k].item \in ChildItems}

\* the calls of a log whose method is one of ops, in order
CallsOf(log, ops) ==
    LET Among(c) == c.op \in ops
    IN SelectSeq(log, Among)

\* a log with each call named by the kind of thing it produces or consumes
Kinds(log, anchored, witness, identity) ==
    [k \in 1..Len(log) |->
        [kind |-> IF log[k].op = anchored THEN "anchored"
                  ELSE IF log[k].op = witness THEN "witness" ELSE "identity",
         item |-> log[k].item, idx |-> log[k].idx]]

\* the anchored columns, witnesses and identities of the prove pass, in order
ProveOrder ==
    Kinds(CallsOf(proof_builder.log,
                  {"produce_anchored_mle", "produce_intermediate_mle",
                   "produce_sumcheck_subpolynomial"}),
          "produce_anchored_mle", "produce_intermediate_mle", "produce_sumcheck_subpolynomial")

\* the anchored, witness and identity evaluations of the verify pass, in order
VerifyOrder ==
    Kinds(CallsOf(verification_builder.log,
                  {"consume_anchored_mle", "consume_intermediate_mle",
                   "produce_sumcheck_subpolynomial_evaluation"}),
          "consume_anchored_mle", "consume_intermediate_mle",
          "produce_sumcheck_subpolynomial_evaluation")

\* the count pass has returned Ok
Counted == expr_state \notin {"Uninitialized", "CountFailed"}

Proved == expr_state \in {"ProofEvaluated", "VerifyEvaluated", "VerifyFailed"}

ResultDone == expr_state \in {"ResultEvaluated", "ProverPanicked"} \/ Proved

\* the most factors any term of any registered identity has
MaxFactors(subpolynomials) ==
    LET sizes == {Len(subpolynomials[k].terms[t].factors) :
                    k \in 1..Len(subpolynomials), t \in 1..2}
    IN IF sizes = {} THEN 0 ELSE CHOOSE x \in sizes : \A y \in sizes : y <= x

(***************************************************************************)
(* C1..C4: the count pass against the calls the passes make.                *)
(***************************************************************************)
\* C1: on top of its children's counts the count pass declares g+s+1 result
\* columns, 2 witness vectors, 3 identities, degree 3 and 2 challenges, and the
\* result pass and the prove pass make exactly those calls: g+s+1
\* produce_result_column and a request for 2 challenges; 2 produce_intermediate_mle,
\* 3 produce_sumcheck_subpolynomial (no term of more than 3 factors) and 2
\* consume_post_result_challenge.
C1_CountMatchesProverCalls ==
    LET children == ChildrenCount(EmptyCountBuilder)
    IN /\ Counted =>
            /\ count_builder.result_columns = children.result_columns + NumGroupBy + NumSums + 1
            /\ count_builder.intermediate_mles = children.intermediate_mles + 2
            /\ count_builder.subpolynomials = children.subpolynomials + 3
            /\ count_builder.degree = 3
            /\ count_builder.post_result_challenges = children.post_result_challenges + 2
       /\ ResultDone =>
            /\ Cardinality(OwnCalls(result_builder.log, "produce_result_column"))
                  = NumGroupBy + NumSums + 1
            /\ Len(result_builder.result_columns) = count_builder.result_columns
            /\ result_builder.num_post_result_challenges = 2
            /\ result_builder.num_post_result_challenges = count_builder.post_result_challenges
       /\ Proved =>
            /\ Cardinality(OwnCalls(proof_builder.log, "produce_intermediate_mle")) = 2
            /\ Len(proof_builder.pcs) = count_builder.intermediate_mles
            /\ Cardinality(OwnCalls(proof_builder.log, "produce_sumcheck_subpolynomial")) = 3
            /\ Len(proof_builder.subpolynomials) = count_builder.subpolynomials
            /\ MaxFactors(proof_builder.subpolynomials) <= 3
            /\ MaxFactors(proof_builder.subpolynomials) <= count_builder.degree
            /\ Cardinality(OwnCalls(proof_builder.log, "consume_post_result_challenge")) = 2
            /\ proof_builder.consumed_challenges = count_builder.post_result_challenges

\* a prove pass has completed for a node of two group-by columns and two sum columns
C1_Witness == expr_state = "ProofEvaluated" /\ NumGroupBy = 2 /\ NumSums = 2

\* C2: a verify pass that returns success consumes, beyond its children, g+s+1
\* result evaluations, 2 witness evaluations and 2 challenges and registers 3
\* identity evaluations: the totals the count pass declared.
C2_CountMatchesVerifierCalls ==
    expr_state = "VerifyEvaluated" =>
        LET children == ChildrenCount(EmptyCountBuilder)
            log      == verification_builder.log
        IN /\ Cardinality(OwnCalls(log, "consume_result_mle")) = NumGroupBy + NumSums + 1
           /\ verification_builder.consumed_result_mles = count_builder.result_columns
           /\ Cardinality(OwnCalls(log, "consume_intermediate_mle")) = 2
           /\ verification_builder.consumed_pcs_mles = count_builder.intermediate_mles
           /\ Cardinality(OwnCalls(log, "consume_post_result_challenge")) = 2
           /\ verification_builder.consumed_challenges = count_builder.post_result_challenges
           /\ Cardinality(OwnCalls(log, "produce_sumcheck_subpolynomial_evaluation")) = 3
           /\ Len(verification_builder.sumcheck_evaluations) = count_builder.subpolynomials
           /\ verification_builder.consumed_anchored_mles = count_builder.anchored_mles
           /\ count_builder.intermediate_mles - children.intermediate_mles = 2
           /\ count_builder.subpolynomials - children.subpolynomials = 3

\* a verify pass has succeeded for a node with group-by and sum columns
C2_Witness == expr_state = "VerifyEvaluated" /\ NumGroupBy = 2 /\ NumSums = 1

\* the order the claim gives: the selection, the group-by columns and the sum
\* columns in list order, g_in_star before g_out_star, then the ZeroSum identity,
\* the input-side Identity and the output-side Identity
ClaimedOrder ==
    <<[kind |-> "anchored", item |-> "where_clause", idx |-> 0],
      [kind |-> "witness", item |-> "where_clause", idx |-> 1],
      [kind |-> "identity", item |-> "where_clause", idx |-> 1]>>
    \o [j \in 1..NumGroupBy |-> [kind |-> "anchored", item |-> "group_by_exprs", idx |-> j]]
    \o [j \in 1..NumSums |-> [kind |-> "anchored", item |-> "sum_expr", idx |-> j]]
    \o <<[kind |-> "witness", item |-> "g_in_star", idx |-> 2],
         [kind |-> "witness", item |-> "g_out_star", idx |-> 3],
         [kind |-> "identity", item |-> "zero_sum", idx |-> 2],
         [kind |-> "identity", item |-> "g_in_star", idx |-> 3],
         [kind |-> "identity", item |-> "g_out_star", idx |-> 4]>>

\* C3: the verify pass consumes witness evaluations and registers identity
\* evaluations in the sequence in which the prove pass produced and registered
\* them: the k-th item of the one is the k-th item of the other, in the order
\* children (selection, group-by columns, sum columns), g_in_star, g_out_star,
\* ZeroSum, input-side Identity, output-side Identity.
C3_VerifyOrderIsProveOrder ==
    /\ Proved =>
        /\ ProveOrder = ClaimedOrder
        /\ [k \in 1..Len(proof_builder.subpolynomials) |-> proof_builder.subpolynomials[k].type]
              = <<"Identity", "ZeroSum", "Identity", "Identity">>
    /\ expr_state = "VerifyEvaluated" =>
        /\ VerifyOrder = ProveOrder
        /\ VerifyOrder = ClaimedOrder

\* a verify pass has succeeded for a node of two group-by columns
C3_Witness == expr_state = "VerifyEvaluated" /\ NumGroupBy = 2 /\ table_length = 2

\* the two challenge draws of a log, and where they stand in it
ChallengeDraws(log) ==
    /\ CallsOf(log, {"consume_post_result_challenge"})
          = <<Call("consume_post_result_challenge", "alpha", 1),
              Call("consume_post_result_challenge", "beta", 2)>>
    /\ \A c \in OwnCalls(log, "consume_post_result_challenge") :
          /\ \A k \in ChildCalls(log) : k < c
          /\ \A k \in OwnCalls(log, "produce_intermediate_mle")
                      \cup OwnCalls(log, "produce_sumcheck_subpolynomial")
                      \cup OwnCalls(log, "consume_intermediate_mle")
                      \cup OwnCalls(log, "produce_sumcheck_subpolynomial_evaluation") : c < k

\* C4: in the prove pass and in the verify pass exactly two post-result challenges
\* are drawn, the first as alpha and the second as beta, after every child has
\* been evaluated and before any group-by witness or identity; both passes bind
\* the same transcript scalar to alpha and the same to beta.
C4_ChallengesAlphaThenBeta ==
    /\ Proved =>
        /\ ChallengeDraws(proof_builder.log)
        /\ ProverAlpha(EmptyProofBuilder, post_result_challenges) = post_result_challenges[1]
        /\ ProverBeta(EmptyProofBuilder, post_result_challenges) = post_result_challenges[2]
    /\ expr_state = "VerifyEvaluated" =>
        /\ ChallengeDraws(verification_builder.log)
        /\ VerifierAlpha(EmptyVerificationBuilder, post_result_challenges)
              = ProverAlpha(EmptyProofBuilder, post_result_challenges)
        /\ VerifierBeta(EmptyVerificationBuilder, post_result_challenges)
              = ProverBeta(EmptyProofBuilder, post_result_challenges)

\* both passes have drawn their challenges, and the two challenges differ
C4_Witness ==
    /\ expr_state = "VerifyEvaluated"
    /\ post_result_challenges[1] # post_result_challenges[2]
    /\ NumGroupBy >= 1 /\ NumSums >= 1

(***************************************************************************)
(* C5, C6, C9: the three identities of the group-by protocol.               *)
(***************************************************************************)
\* the k-th identity prove_group_by registered: ZeroSum, input-side, output-side
GroupByIdentity(k) ==
    proof_builder.subpolynomials[Len(proof_builder.subpolynomials) - 3 + k]

IdentitySatisfied(k) ==
    Satisfied(GroupByIdentity(k).type, GroupByIdentity(k).terms, table_length)

\* the witnesses and folds as the prove pass left them in the builder
ProvedGInStar == GroupByIdentity(2).terms[1].factors[1]

ProvedGInFold == GroupByIdentity(2).terms[1].factors[2]

ProvedGOutStar == GroupByIdentity(3).terms[1].factors[1]

ProvedGOutFold == GroupByIdentity(3).terms[1].factors[2]

ProvedSumInFold == GroupByIdentity(1).terms[1].factors[3]

\* no row's folded key is the additive identity
FoldsInvertible == \A i \in 1..table_length : ProvedGInFold[i] # 0

\* the output as the result pass produced it
ResultGroupBy == SubSeq(result_builder.result_columns, 1, NumGroupBy)

ResultSums == SubSeq(result_builder.result_columns, NumGroupBy + 1, NumGroupBy + NumSums)

ResultCount == result_builder.result_columns[NumGroupBy + NumSums + 1]

NumGroups == result_builder.result_index_vector.hi

AllFalseMask == \A i \in 1..table_length : ~where_clause.sel[i]

\* C5 as stated: with the honest output and the same challenges, all three
\* identities are satisfied, for every table, mask, group-by list and sum list.
C5_AllIdentitiesHold ==
    Proved => IdentitySatisfied(1) /\ IdentitySatisfied(2) /\ IdentitySatisfied(3)

\* C5 as amended: all three identities are satisfied whenever no row's folded
\* key g_in_fold[i] = alpha + sum_j beta^j * key_j[i] is zero.
C5_IdentitiesHoldForInvertibleFolds ==
    (Proved /\ FoldsInvertible) =>
        IdentitySatisfied(1) /\ IdentitySatisfied(2) /\ IdentitySatisfied(3)

\* two selected rows of one key are summed into one group, under invertible folds
C5_Witness ==
    /\ expr_state = "ProofEvaluated"
    /\ FoldsInvertible
    /\ table_length = 2 /\ NumGroupBy = 1 /\ NumSums = 1
    /\ NumGroups = 1 /\ where_clause.sel = <<TRUE, TRUE>>
    /\ sum_expr[1] = <<1, 1>>
    /\ post_result_challenges[2] \notin {0, 1}

\* the ZeroSum identity with the output's fold recomputed from other sums and counts,
\* the witnesses and the challenges as the prove pass left them
ZeroSumHoldsFor(sum_out, count_out) ==
    Satisfied("ZeroSum",
              ZeroSumTerms(ProvedGInStar, where_clause.sel, ProvedSumInFold, ProvedGOutStar,
                           sum_out_bar_fold(table_length, post_result_challenges[2],
                                            sum_out, count_out)),
              table_length)

\* every output that differs from the result in one entry of sum column j
SumMutations ==
    {[ResultSums EXCEPT ![j][k] = v] :
        j \in 1..NumSums, k \in 1..NumGroups, v \in Scalars} \ {ResultSums}

\* every output that differs from the result in one entry of the count column
CountMutations ==
    {[ResultCount EXCEPT ![k] = v] : k \in 1..NumGroups, v \in Scalars} \ {ResultCount}

HonestIdentitiesHold ==
    IdentitySatisfied(1) /\ IdentitySatisfied(2) /\ IdentitySatisfied(3)

\* C6 as stated: from an honest output that satisfies the identities, changing
\* one entry of one sum column or of the count column makes the ZeroSum identity fail.
C6_AnyMutationBreaksZeroSum ==
    (Proved /\ HonestIdentitiesHold) =>
        /\ \A sums \in SumMutations : ~ZeroSumHoldsFor(sums, ResultCount)
        /\ \A counts \in CountMutations : ~ZeroSumHoldsFor(ResultSums, counts)

\* C6 as amended: changing one entry of the count column always makes the ZeroSum
\* identity fail, and changing one entry of a sum column does when beta is not 0.
C6_MutationBreaksZeroSumForNonZeroBeta ==
    (Proved /\ HonestIdentitiesHold) =>
        /\ post_result_challenges[2] # 0 =>
              \A sums \in SumMutations : ~ZeroSumHoldsFor(sums, ResultCount)
        /\ \A counts \in CountMutations : ~ZeroSumHoldsFor(ResultSums, counts)

\* an honest output of two groups with a sum column satisfies the identities, beta not 0
C6_Witness ==
    /\ expr_state = "ProofEvaluated"
    /\ HonestIdentitiesHold
    /\ post_result_challenges[2] # 0
    /\ NumGroups = 2 /\ NumSums = 1 /\ NumGroupBy = 1

\* C9 as stated: with an all-false mask there are no groups, every result column
\* is empty, the index set is [0,0), g_out_star is alpha^-1 at every row, and all
\* three identities hold.
C9_AllFalseMaskAllIdentities ==
    (Proved /\ AllFalseMask) =>
        /\ NumGroups = 0
        /\ \A k \in 1..Len(result_builder.result_columns) :
              Len(result_builder.result_columns[k]) = 0
        /\ result_builder.result_index_vector = [kind |-> "Dense", lo |-> 0, hi |-> 0]
        /\ ProvedGOutStar = Filled(table_length, Inv(post_result_challenges[1]))
        /\ IdentitySatisfied(1) /\ IdentitySatisfied(2) /\ IdentitySatisfied(3)

\* C9 as amended: with an all-false mask there are no groups, every result column
\* is empty, the index set is [0,0), g_out_star is alpha^-1 at every row, the
\* ZeroSum identity and the output-side Identity hold, and the input-side Identity
\* holds when no row's folded key is zero.
C9_AllFalseMask ==
    /\ (ResultDone /\ AllFalseMask) =>
        /\ NumGroups = 0
        /\ Len(result_builder.result_columns) = NumGroupBy + NumSums + 1
        /\ \A k \in 1..Len(result_builder.result_columns) :
              Len(result_builder.result_columns[k]) = 0
        /\ result_builder.result_index_vector = [kind |-> "Dense", lo |-> 0, hi |-> 0]
    /\ (Proved /\ AllFalseMask) =>
        /\ ProvedGOutStar = Filled(table_length, Inv(post_result_challenges[1]))
        /\ IdentitySatisfied(1)
        /\ IdentitySatisfied(3)
        /\ FoldsInvertible => IdentitySatisfied(2)

\* a prove pass has completed over a table of two rows, none selected
C9_Witness ==
    /\ expr_state = "ProofEvaluated"
    /\ AllFalseMask
    /\ table_length = 2 /\ NumGroupBy = 1 /\ NumSums = 1

(***************************************************************************)
(* C7, C8, C10: the output of the result pass.                              *)
(***************************************************************************)
\* the rows the mask selects
Selected == {i \in 1..table_length : where_clause.sel[i]}

\* the key tuple of input row i, and of output row k
InputKey(i) == [j \in 1..NumGroupBy |-> group_by_exprs[j][i]]

OutputKey(k) == [j \in 1..NumGroupBy |-> ResultGroupBy[j][k]]

\* the selected rows of output group k
GroupRows(k) == {i \in Selected : InputKey(i) = OutputKey(k)}

\* C7: the entries of the count result column sum to the number of rows whose
\* mask value is true, for every mask.
C7_CountsSumToSelected ==
    ResultDone => SumInts(ResultCount) = Cardinality(Selected)

\* two of three rows are selected and fall into two groups
C7_Witness ==
    /\ expr_state = "ResultEvaluated"
    /\ table_length = 3 /\ Cardinality(Selected) = 2 /\ NumGroups = 2

\* C8: the result pass returns one output row per distinct key tuple among the
\* selected rows; each group's sums are the sums of the input columns over its
\* selected rows and its count is the number of those rows; unselected rows
\* contribute to no group.
C8_ResultIsAggregation ==
    ResultDone =>
        /\ Len(result_builder.result_columns) = NumGroupBy + NumSums + 1
        /\ \A c \in 1..Len(result_builder.result_columns) :
              Len(result_builder.result_columns[c]) = NumGroups
        /\ \A k1, k2 \in 1..NumGroups : OutputKey(k1) = OutputKey(k2) => k1 = k2
        /\ \A i \in Selected : \E k \in 1..NumGroups : OutputKey(k) = InputKey(i)
        /\ \A k \in 1..NumGroups :
              /\ GroupRows(k) # {}
              /\ ResultCount[k] = Cardinality(GroupRows(k))
              /\ \A j \in 1..NumSums : ResultSums[j][k] = SumOver(sum_expr[j], GroupRows(k))

\* the example of the specification, scaled to the field: rows (a=1,b=2),
\* (a=2,b=1), (a=1,b=1), all selected, give {a=1: sum 3, count 2}, {a=2: sum 1, count 1}
C8_Witness ==
    /\ expr_state = "ResultEvaluated"
    /\ group_by_exprs = <<(<<1, 2, 1>>)>>
    /\ sum_expr = <<(<<2, 1, 1>>)>>
    /\ where_clause.sel = <<TRUE, TRUE, TRUE>>
    /\ NumGroups = 2
    /\ \E k1, k2 \in 1..2 :
          /\ OutputKey(k1) = <<1>> /\ ResultSums[1][k1] = 3 /\ ResultCount[k1] = 2
          /\ OutputKey(k2) = <<2>> /\ ResultSums[1][k2] = 1 /\ ResultCount[k2] = 1

\* the aggregate of the whole selection in one group
OneImplicitGroup ==
    /\ NumGroups = 1
    /\ ResultCount = <<Cardinality(Selected)>>
    /\ \A j \in 1..NumSums : ResultSums[j] = <<SumOver(sum_expr[j], Selected)>>

KeyFold(alpha, beta, key) ==
    Add(alpha, SumScalars([j \in 1..Len(key) |-> Mul(Pow(beta, j - 1), key[j] % P)]))

\* gIn[i] and gOut[k] under the challenges the prove pass drew
GIn(i) == KeyFold(post_result_challenges[1], post_result_challenges[2], InputKey(i))

GOut(k) == KeyFold(post_result_challenges[1], post_result_challenges[2], OutputKey(k))

\* C11 as stated: for every alpha not 0, every beta and every table, the prove
\* pass's witnesses satisfy gInStar[i] * gIn[i] = 1 at every input row i and
\* gOutStar[k] * gOut[k] = 1 at every output group k.
C11_WitnessesAreInverses ==
    Proved =>
        /\ \A i \in 1..table_length : Mul(ProvedGInStar[i], GIn(i)) = 1
        /\ \A k \in 1..NumGroups : Mul(ProvedGOutStar[k], GOut(k)) = 1

\* C11 as amended: for every alpha not 0, every beta and every table,
\* gInStar[i] * gIn[i] = 1 at every input row i whose fold gIn[i] is not zero and
\* gOutStar[k] * gOut[k] = 1 at every output group k whose fold gOut[k] is not zero.
C11_WitnessesAreInversesOfNonZeroFolds ==
    Proved =>
        /\ post_result_challenges[1] # 0
        /\ Len(ProvedGInStar) = table_length /\ Len(ProvedGOutStar) = table_length
        /\ \A i \in 1..table_length : GIn(i) # 0 => Mul(ProvedGInStar[i], GIn(i)) = 1
        /\ \A k \in 1..NumGroups : GOut(k) # 0 => Mul(ProvedGOutStar[k], GOut(k)) = 1

\* two rows of two key columns fall into two groups, no fold zero, beta not 0 or 1
C11_Witness ==
    /\ expr_state = "ProofEvaluated"
    /\ table_length = 2 /\ NumGroupBy = 2 /\ NumGroups = 2
    /\ post_result_challenges[2] \notin {0, 1}
    /\ \A i \in 1..table_length : GIn(i) # 0
    /\ GIn(1) # GIn(2)

(***************************************************************************)
(* C12, C13: the result columns and the index set of the result pass.       *)
(***************************************************************************)
\* m: the number of distinct key tuples among the selected rows
NumDistinctGroups == Cardinality({InputKey(i) : i \in Selected})

\* C12 as stated: the result pass produces m + len(sums) + 1 result columns, m
\* the number of distinct output groups, and the dense index range [0, m).
C12_GroupsPlusSumsPlusOneColumns ==
    ResultDone =>
        /\ Len(result_builder.result_columns) = NumDistinctGroups + NumSums + 1
        /\ result_builder.result_index_vector
              = [kind |-> "Dense", lo |-> 0, hi |-> NumDistinctGroups]

\* C12 as amended: the result pass produces g + len(sums) + 1 result columns, g
\* the number of group-by columns, each of length m, the number of distinct
\* output groups, and the dense index range [0, m).
C12_KeysPlusSumsPlusOneColumns ==
    ResultDone =>
        /\ Len(result_builder.result_columns) = NumGroupBy + NumSums + 1
        /\ Len(result_builder.result_columns) = count_builder.result_columns
        /\ \A c \in 1..Len(result_builder.result_columns) :
              Len(result_builder.result_columns[c]) = NumDistinctGroups
        /\ result_builder.result_index_vector
              = [kind |-> "Dense", lo |-> 0, hi |-> NumDistinctGroups]

\* three selected rows of one key column and one sum column fall into two groups
C12_Witness ==
    /\ expr_state = "ResultEvaluated"
    /\ NumGroupBy = 1 /\ NumSums = 1 /\ table_length = 3
    /\ Cardinality(Selected) = 3 /\ NumDistinctGroups = 2
    /\ Len(result_builder.result_columns) = 3

\* the positions of the log of the result pass at which the method op was called
ResultCalls(op) == {k \in 1..Len(result_builder.log) : result_builder.log[k].op = op}

\* C13: in one result pass the index set is set exactly once, before any result
\* column is produced, and its length is the length of every result column
\* produced in that pass: the number of groups m.
C13_IndexesSetOnceBeforeColumns ==
    /\ ~ResultDone => ResultCalls("set_result_indexes") = {}
    /\ ResultDone =>
        /\ Cardinality(ResultCalls("set_result_indexes")) = 1
        /\ \A k \in ResultCalls("set_result_indexes"), c \in ResultCalls("produce_result_column") :
              k < c
        /\ Cardinality(ResultCalls("produce_result_column")) = Len(result_builder.result_columns)
        /\ result_builder.result_index_vector.kind = "Dense"
        /\ \A c \in 1..Len(result_builder.result_columns) :
              Len(result_builder.result_columns[c])
                 = result_builder.result_index_vector.hi - result_builder.result_index_vector.lo
        /\ result_builder.result_index_vector.hi - result_builder.result_index_vector.lo
              = NumDistinctGroups

\* a result pass has produced three columns of two groups
C13_Witness ==
    /\ expr_state = "ResultEvaluated"
    /\ NumGroupBy = 1 /\ NumSums = 1
    /\ result_builder.result_index_vector = [kind |-> "Dense", lo |-> 0, hi |-> 2]
    /\ Cardinality(ResultCalls("produce_result_column")) = 3

(***************************************************************************)
(* C14: the verify pass without an index-set evaluation.                    *)
(***************************************************************************)
\* the index-set evaluation is absent from the verify builder
IndexesAbsent == ~verification_builder.mle_evaluations.result_indexes_evaluation.some

\* verifier_evaluate has returned
VerifyReturned == expr_state \in {"VerifyEvaluated", "VerifyFailed"}

\* C14: when the index-set evaluation is absent the verify pass returns the
\* verification error "invalid indexes", a returned error and not a crash, and the
\* node has then consumed no result evaluation, no witness evaluation and no
\* post-result challenge of its own and registered no identity evaluation; when
\* the evaluation is present the pass returns Ok.
C14_InvalidIndexesIsAnError ==
    VerifyReturned =>
        LET children == ChildrenCount(EmptyCountBuilder)
            log      == verification_builder.log
        IN /\ verify_result.returned
           /\ IndexesAbsent =>
                /\ verify_result = Err("invalid indexes", 0)
                /\ expr_state = "VerifyFailed"
                /\ OwnCalls(log, "consume_result_mle") = {}
                /\ verification_builder.consumed_result_mles = 0
                /\ OwnCalls(log, "consume_intermediate_mle") = {}
                /\ verification_builder.consumed_pcs_mles = children.intermediate_mles
                /\ OwnCalls(log, "consume_post_result_challenge") = {}
                /\ verification_builder.consumed_challenges = 0
                /\ OwnCalls(log, "produce_sumcheck_subpolynomial_evaluation") = {}
                /\ Len(verification_builder.sumcheck_evaluations) = children.subpolynomials
                /\ verification_builder.consumed_anchored_mles = children.anchored_mles
           /\ ~IndexesAbsent => verify_result = Ok /\ expr_state = "VerifyEvaluated"

\* a verify pass over a proof of two rows has returned the error
C14_Witness ==
    /\ expr_state = "VerifyFailed"
    /\ IndexesAbsent
    /\ verify_result.error = "invalid indexes"
    /\ table_length = 2 /\ NumGroupBy = 1 /\ NumSums = 1

(***************************************************************************)
(* C19: the count pass and its children's errors.                           *)
(***************************************************************************)
\* what the selection alone counts
SelectionCount == WhereClauseCount(EmptyCountBuilder)

\* C19: the count pass returns an error exactly when the count of the selection or
\* of some group-by or sum column returns one; it returns the error of the first
\* failing child, having counted only the children before it and none of its own
\* 2 witnesses, 3 identities, degree and 2 challenges; in every other case it
\* returns Ok with everything counted.
C19_CountFailsOnlyByPropagation ==
    /\ expr_state = "Uninitialized" => count_result = Pending
    /\ expr_state # "Uninitialized" =>
        /\ count_result.returned
        /\ count_result.ok <=> count_errors = {}
        /\ count_result.ok <=> expr_state # "CountFailed"
        /\ ~count_result.ok =>
              LET k == count_result.child
              IN /\ k \in count_errors
                 /\ \A j \in count_errors : k <= j
                 /\ count_result.error = "child error"
                 /\ count_builder.anchored_mles = k - 1
                 /\ count_builder.result_columns = IF k = 1 THEN 0 ELSE k - 2
                 /\ count_builder.intermediate_mles
                       = IF k = 1 THEN 0 ELSE SelectionCount.intermediate_mles
                 /\ count_builder.subpolynomials
                       = IF k = 1 THEN 0 ELSE SelectionCount.subpolynomials
                 /\ count_builder.degree = IF k = 1 THEN 0 ELSE SelectionCount.degree
                 /\ count_builder.post_result_challenges = 0
        /\ count_result.ok =>
              /\ count_result = Ok
              /\ count_builder.anchored_mles = NumChildren
              /\ count_builder.result_columns = NumGroupBy + NumSums + 1
              /\ count_builder.intermediate_mles = SelectionCount.intermediate_mles + 2
              /\ count_builder.subpolynomials = SelectionCount.subpolynomials + 3
              /\ count_builder.degree = 3
              /\ count_builder.post_result_challenges = 2

\* the count of the second group-by column and of the sum column fail: the error
\* is the group-by column's, the selection and the first group-by column are counted
C19_Witness ==
    /\ expr_state = "CountFailed"
    /\ NumGroupBy = 2 /\ NumSums = 1
    /\ count_errors = {3, 4}
    /\ count_result = Err("child error", 3)
    /\ count_builder.result_columns = 1

(***************************************************************************)
(* C15: the challenge alpha = 0.                                            *)
(***************************************************************************)
\* prover_evaluate has been called and has returned or panicked
ProverCalled == expr_state = "ProverPanicked" \/ Proved

\* C15: when the challenge alpha is 0 the prove pass panics, before it produces
\* a witness vector or registers an identity, for every table and every number of
\* output groups m, m = n included; it completes only with alpha not 0.
C15_ZeroAlphaIsFatal ==
    /\ ProverCalled =>
          (expr_state = "ProverPanicked" <=> post_result_challenges[1] = 0)
    /\ expr_state = "ProverPanicked" =>
        /\ OwnCalls(proof_builder.log, "produce_intermediate_mle") = {}
        /\ OwnCalls(proof_builder.log, "produce_sumcheck_subpolynomial") = {}
        /\ Len(proof_builder.pcs) = SelectionCount.intermediate_mles
        /\ Len(proof_builder.subpolynomials) = SelectionCount.subpolynomials
        /\ proof_builder.consumed_challenges = 2
    /\ Proved =>
        /\ post_result_challenges[1] # 0
        /\ Len(proof_builder.pcs) = SelectionCount.intermediate_mles + 2

\* alpha is 0 and every one of the two rows is a group of its own: m = n
C15_Witness ==
    /\ expr_state = "ProverPanicked"
    /\ post_result_challenges[1] = 0
    /\ table_length = 2 /\ NumGroups = 2

(***************************************************************************)
(* C18: the verify pass replays the prover's folds on evaluations.          *)
(***************************************************************************)
\* the sumcheck's randoms the verify builder was made with
VerifierRandom ==
    CHOOSE random \in SumcheckRandoms :
        NewVerificationBuilder(random, TRUE).mle_evaluations
            = verification_builder.mle_evaluations

\* the linear evaluation map: a length-n vector evaluated at the verifier's point
E(point, v) == Evaluate(point, v)

\* the evaluations verifier_evaluate holds when it calls verify_group_by
VerifierOneEval == verification_builder.mle_evaluations.one_evaluation

VerifierGInEvals ==
    SubSeq(verification_builder.mle_evaluations.anchored_evaluations, 2, NumGroupBy + 1)

VerifierSumInEvals ==
    SubSeq(verification_builder.mle_evaluations.anchored_evaluations,
           NumGroupBy + 2, NumGroupBy + NumSums + 1)

VerifierGOutEvals ==
    SubSeq(verification_builder.mle_evaluations.result_evaluations, 1, NumGroupBy)

VerifierSumOutEvals ==
    SubSeq(verification_builder.mle_evaluations.result_evaluations,
           NumGroupBy + 1, NumGroupBy + NumSums)

VerifierCountOutEval ==
    verification_builder.mle_evaluations.result_evaluations[NumGroupBy + NumSums + 1]

\* the sum_out_bar_fold vector as the prove pass left it in the ZeroSum identity
ProvedSumOutFold == GroupByIdentity(1).terms[2].factors[2]

\* a prover identity on scalars: each factor replaced by its evaluation, the
\* constant term by one_eval, an Identity weighted by the random row selector
EvaluatedIdentity(point, subpolynomial) ==
    LET TermEval(term) ==
            Mul(term.coef,
                IF term.factors = <<>> THEN VerifierOneEval
                ELSE ProdScalars([f \in 1..Len(term.factors) |-> E(point, term.factors[f])]))
        total == SumScalars([t \in 1..Len(subpolynomial.terms) |->
                                TermEval(subpolynomial.terms[t])])
    IN IF subpolynomial.type = "Identity"
       THEN Mul(verification_builder.mle_evaluations.random_evaluation, total)
       ELSE total

\* C18: under the linear evaluation map E, with E(all-ones) = one_eval, the
\* verifier's g_in_fold, g_out_bar_fold, sum_in_fold and sum_out_bar_fold values
\* are E of the prover's g_in_fold, g_out_bar_fold, sum_in_fold and
\* sum_out_bar_fold vectors, and the three evaluations the verify pass registers
\* are the three prover identities with every vector replaced by its evaluation.
C18_VerifierReplaysFolds ==
    expr_state = "VerifyEvaluated" =>
        LET alpha == post_result_challenges[1]
            beta  == post_result_challenges[2]
            last  == Len(verification_builder.sumcheck_evaluations)
            point == VerifierRandom.point
        IN /\ E(point, Filled(table_length, 1)) = VerifierOneEval
           /\ g_in_fold_eval(alpha, beta, VerifierOneEval, VerifierGInEvals) = E(point, ProvedGInFold)
           /\ g_out_bar_fold_eval(alpha, beta, VerifierOneEval, VerifierGOutEvals)
                 = E(point, ProvedGOutFold)
           /\ sum_in_fold_eval(beta, VerifierOneEval, VerifierSumInEvals) = E(point, ProvedSumInFold)
           /\ sum_out_bar_fold_eval(beta, VerifierCountOutEval, VerifierSumOutEvals)
                 = E(point, ProvedSumOutFold)
           /\ \A k \in 1..3 :
                 verification_builder.sumcheck_evaluations[last - 3 + k]
                    = EvaluatedIdentity(point, GroupByIdentity(k))

\* a verify pass over one row, where the all-ones vector does not evaluate to 1,
\* with a group-by column and a sum column of non-zero evaluations
C18_Witness ==
    /\ expr_state = "VerifyEvaluated"
    /\ table_length = 1 /\ NumGroupBy = 1 /\ NumSums = 1
    /\ VerifierOneEval \notin {0, 1}
    /\ post_result_challenges[2] \notin {0, 1}
    /\ VerifierGInEvals[1] # 0 /\ VerifierSumInEvals[1] # 0

(***************************************************************************)
(* C20: the reflected output schema.                                        *)
(***************************************************************************)
\* the column the aggregation returns for the expression a field is the field of
FieldColumn(field) ==
    IF field.of = "group_by_exprs" THEN Aggregated.group_by_columns[field.idx]
    ELSE IF field.of = "sum_expr" THEN Aggregated.sum_columns[field.idx]
    ELSE Aggregated.count_column

\* the item a builder call is logged with for the expression a field is the field of
FieldItem(field) ==
    IF field.of = "group_by_exprs" THEN "group_by"
    ELSE IF field.of = "sum_expr" THEN "sum" ELSE "count"

\* C20: the output schema lists the group-by column fields in list order, then the
\* sum output fields in list order, then one count field of type BigInt; its
\* length is g+s+1; its k-th field is the field of the k-th result column the
\* result pass produces and of the k-th result evaluation the verify pass consumes.
C20_ResultFieldsMatchResultColumns ==
    LET fields == get_column_result_fields
    IN /\ Len(fields) = NumGroupBy + NumSums + 1
       /\ \A j \in 1..NumGroupBy : fields[j].of = "group_by_exprs" /\ fields[j].idx = j
       /\ \A j \in 1..NumSums :
             fields[NumGroupBy + j].of = "sum_expr" /\ fields[NumGroupBy + j].idx = j
       /\ fields[Len(fields)] = ColumnField("count_alias", 0, "BigInt")
       /\ ResultDone =>
            LET produced == CallsOf(result_builder.log, {"produce_result_column"})
            IN /\ Len(produced) = Len(fields)
               /\ \A k \in 1..Len(fields) :
                     /\ produced[k].item = FieldItem(fields[k])
                     /\ produced[k].idx = k
                     /\ result_builder.result_columns[k] = FieldColumn(fields[k])
       /\ expr_state = "VerifyEvaluated" =>
            LET consumed == CallsOf(verification_builder.log, {"consume_result_mle"})
            IN /\ Len(consumed) = Len(fields)
               /\ \A k \in 1..Len(fields) :
                     /\ consumed[k].item = FieldItem(fields[k])
                     /\ consumed[k].idx = k

\* a verify pass has consumed the evaluations of two key columns, a sum and the count
C20_Witness ==
    /\ expr_state = "VerifyEvaluated"
    /\ NumGroupBy = 2 /\ NumSums = 1 /\ table_length = 1
    /\ Len(get_column_result_fields) = 4
    /\ verification_builder.consumed_result_mles = 4

(***************************************************************************)
(* C17: an output with a group split into two rows of one key.              *)
(***************************************************************************)
\* a column with entry k replaced by the two entries a and b
SplitEntry(col, k, a, b) ==
    SubSeq(col, 1, k - 1) \o <<a, b>> \o SubSeq(col, k + 1, Len(col))

\* the output agg with group k split into two rows of its key tuple, its count
\* partitioned into c1 and the rest, each of its sums into s1[j] and the rest
SplitOutput(agg, k, c1, s1) ==
    [group_by_columns |->
        [j \in 1..Len(agg.group_by_columns) |->
            SplitEntry(agg.group_by_columns[j], k,
                       agg.group_by_columns[j][k], agg.group_by_columns[j][k])],
     sum_columns |->
        [j \in 1..Len(agg.sum_columns) |->
            SplitEntry(agg.sum_columns[j], k, s1[j], Sub(agg.sum_columns[j][k], s1[j]))],
     count_column |->
        SplitEntry(agg.count_column, k, c1, agg.count_column[k] - c1)]

\* every such output that still fits the n rows of the table
SplitOutputs ==
    IF NumGroups >= table_length THEN {}
    ELSE LET agg == Aggregated
         IN UNION {{SplitOutput(agg, k, c1, s1) :
                       c1 \in 0..agg.count_column[k], s1 \in [1..NumSums -> Scalars]} :
                   k \in 1..NumGroups}

\* the result builder a prover leaves that returns the output out
ResultBuilderOf(out) ==
    ProducedResultColumns(
        set_result_indexes(EmptyResultBuilder, DenseIndexes(out.count_column)), out)

\* the proof builder prove_group_by leaves for the output out, its witnesses
\* computed from out as the code computes them, under the challenges drawn
ProofBuilderOf(out) ==
    prove_group_by(ProverDrawChallenges(EmptyProofBuilder), table_length,
                   post_result_challenges[1], post_result_challenges[2],
                   group_by_columns, sum_columns, selection,
                   out.group_by_columns, out.sum_columns, out.count_column)

\* the k-th group-by identity of the proof builder pb is satisfied
SatisfiedIn(pb, k) ==
    LET identity == pb.subpolynomials[Len(pb.subpolynomials) - 3 + k]
    IN Satisfied(identity.type, identity.terms, table_length)

\* the verify pass over the proof of the builders rb and pb returns Ok, having
\* made the calls the count pass declared
VerifiedFor(rb, pb) ==
    \A random \in SumcheckRandoms :
        LET res == GroupByVerifierEvaluate(VerificationBuilderOf(rb, pb, random, TRUE),
                                           post_result_challenges)
        IN /\ res.result = Ok
           /\ Len(res.builder.sumcheck_evaluations) = count_builder.subpolynomials
           /\ res.builder.consumed_result_mles = count_builder.result_columns

\* the output has two rows of one key tuple
HasDuplicateKey(out) ==
    \E k1, k2 \in 1..Len(out.count_column) :
        /\ k1 # k2
        /\ \A j \in 1..NumGroupBy : out.group_by_columns[j][k1] = out.group_by_columns[j][k2]

C16_OutOfOrderIsFatal ==
    /\ expr_state \in {"ResultEvaluated", "ProofEvaluated"} =>
          count_result.returned /\ count_result.ok
    /\ expr_state = "ProofEvaluated" =>
          result_builder.result_index_vector.kind = "Dense"

(***************************************************************************)
(* C21: the selector factor of the Identity evaluations.                    *)
(***************************************************************************)
\* the evaluation the verify pass registered for the k-th group-by identity
RegisteredEvaluation(k) ==
    verification_builder.sumcheck_evaluations[
        Len(verification_builder.sumcheck_evaluations) - 3 + k]

VerifierRandEval == verification_builder.mle_evaluations.random_evaluation

\* the evaluation of the where clause's selection column the verifier holds
VerifierSelInEval == verification_builder.mle_evaluations.anchored_evaluations[1]

\* C21: the prove pass tags its three identities ZeroSum, Identity, Identity;
\* the verify pass registers for each Identity rand_eval * (star_eval *
\* fold_eval - one_eval), the constant 1 replaced by one_eval and the whole
\* multiplied by the evaluation of the random row selector, and for the ZeroSum
\* g_in_star_eval * sel_in_eval * sum_in_fold_eval - g_out_star_eval *
\* sum_out_bar_fold_eval with no selector factor.
C21_SelectorOnIdentitiesOnly ==
    expr_state = "VerifyEvaluated" =>
        LET point == VerifierRandom.point
            gis   == E(point, ProvedGInStar)
            gos   == E(point, ProvedGOutStar)
            gif   == E(point, ProvedGInFold)
            gof   == E(point, ProvedGOutFold)
            sif   == E(point, ProvedSumInFold)
            sobf  == E(point, ProvedSumOutFold)
        IN /\ <<GroupByIdentity(1).type, GroupByIdentity(2).type, GroupByIdentity(3).type>>
                 = <<"ZeroSum", "Identity", "Identity">>
           /\ RegisteredEvaluation(1)
                 = Sub(Mul(Mul(gis, VerifierSelInEval), sif), Mul(gos, sobf))
           /\ RegisteredEvaluation(2)
                 = Mul(VerifierRandEval, Sub(Mul(gis, gif), VerifierOneEval))
           /\ RegisteredEvaluation(3)
                 = Mul(VerifierRandEval, Sub(Mul(gos, gof), VerifierOneEval))

\* a verify pass where the selector's and the all-ones vector's evaluations are
\* neither 0 nor 1 and none of the three registered evaluations is 0
C21_Witness ==
    /\ expr_state = "VerifyEvaluated"
    /\ VerifierRandEval \notin {0, 1}
    /\ VerifierOneEval \notin {0, 1}
    /\ \A k \in 1..3 : RegisteredEvaluation(k) # 0

(***************************************************************************)
(* C22: the zero-padding positions of the output side.                      *)
(***************************************************************************)
\* the positions of the length-n output vectors beyond the m output groups
PaddingPositions == (NumGroups + 1)..table_length

\* what position i of the output side contributes to the ZeroSum identity
OutputZeroSumTermAt(i) == TermAt(GroupByIdentity(1).terms[2], i)

\* C22: for every number of output groups m <= n, at every padding position i
\* beyond m the prove pass has gOut[i] = alpha, gOutStar[i] = alpha^-1 and
\* sumOut[i] = 0, so the position contributes 0 to the ZeroSum identity and
\* satisfies gOutStar[i] * gOut[i] - 1 = 0; a position up to m holds the batch
\* inverse of the folded output key of its group, not the padding value.
C22_PaddingPositions ==
    Proved =>
        LET alpha == post_result_challenges[1]
        IN /\ NumGroups <= table_length
           /\ \A i \in PaddingPositions :
                 /\ ProvedGOutFold[i] = alpha
                 /\ ProvedGOutStar[i] = Inv(alpha)
                 /\ ProvedSumOutFold[i] = 0
                 /\ OutputZeroSumTermAt(i) = 0
                 /\ Sub(Mul(ProvedGOutStar[i], ProvedGOutFold[i]), 1) = 0
           /\ \A k \in 1..NumGroups :
                 /\ ProvedGOutFold[k] = GOut(k)
                 /\ ProvedGOutStar[k] = batch_inversion(<<GOut(k)>>)[1]

\* two rows in one group: one padding position, and a group whose folded key
\* is neither zero nor alpha, with a sum column
C22_Witness ==
    /\ expr_state = "ProofEvaluated"
    /\ table_length = 2 /\ NumGroups = 1 /\ NumGroupBy = 1 /\ NumSums = 1
    /\ GOut(1) \notin {0, post_result_challenges[1]}
    /\ ProvedSumOutFold[1] # 0

LastCall(op, arg) == query_call.op = op /\ query_call.arg = arg

\* C24: set_in_agg_scope(true) called inside an aggregation scope returns the
\* error "nested aggregations are not supported" and leaves in_agg_scope,
\* agg_counter and fixed_col_ref_counter as they were; after any sequence of
\* calls agg_counter is the number of successful scope entries.
C24_NoNestedAggregationScope ==
    /\ query_context.agg_counter = query_history.agg_entries
    /\ LastCall("set_in_agg_scope", TRUE) /\ query_call.before.in_agg_scope =>
          /\ query_call.result
                = QErr("InvalidExpression", "nested aggregations are not supported")
          /\ query_context.in_agg_scope = query_call.before.in_agg_scope
          /\ query_context.agg_counter = query_call.before.agg_counter
          /\ query_context.fixed_col_ref_counter = query_call.before.fixed_col_ref_counter

\* an entry attempted inside the second aggregation scope, after a column
\* was referenced in it
C24_Witness ==
    /\ LastCall("set_in_agg_scope", TRUE)
    /\ query_call.before.in_agg_scope
    /\ query_call.before.agg_counter = 2
    /\ query_call.before.col_ref_counter > query_call.before.fixed_col_ref_counter

(***************************************************************************)
(* C25: every aggregation and every result expression references a column.  *)
(***************************************************************************)
\* the last call left an aggregation scope
LeftAggScope == LastCall("set_in_agg_scope", FALSE) /\ query_call.before.in_agg_scope

\* the last call was a push_aliased_result_expr that returned: the method
\* asserts that the group-by list was set
PushedResultExpr ==
    query_call.op = "push_aliased_result_expr" /\ query_call.before.has_visited_group_by

\* C25 as stated: leaving an aggregation scope returns an error when no
\* push_column_ref happened since that scope was entered, and succeeds otherwise;
\* push_aliased_result_expr returns an error, and appends nothing, when no
\* push_column_ref happened since the later of the previous successful
\* push_aliased_result_expr and the last aggregation-scope entry, and succeeds
\* otherwise.
C25_ColumnRefSinceScopeEntry ==
    /\ LeftAggScope =>
          IF query_call.seen.refs_since_entry = 0
          THEN query_call.result.kind = "Err"
          ELSE query_call.result.kind = "Ok"
    /\ PushedResultExpr =>
          IF query_call.seen.refs_since_mark = 0
          THEN /\ query_call.result.kind = "Err"
               /\ query_context.res_aliased_exprs = query_call.before.res_aliased_exprs
          ELSE query_call.result.kind = "Ok"

\* C25 as amended: leaving an aggregation scope returns an error when no
\* push_column_ref happened since the later of that scope's entry and the last
\* successful push_aliased_result_expr, and succeeds otherwise;
\* push_aliased_result_expr returns an error, and appends nothing, when no
\* push_column_ref happened since the later of the previous successful
\* push_aliased_result_expr and the last aggregation-scope entry, and otherwise
\* succeeds and appends the expression.
C25_ColumnRefSinceLastMark ==
    /\ LeftAggScope =>
          IF query_call.seen.refs_since_mark = 0
          THEN query_call.result.kind = "Err"
          ELSE query_call.result.kind = "Ok"
    /\ PushedResultExpr =>
          IF query_call.seen.refs_since_mark = 0
          THEN /\ query_call.result.kind = "Err"
               /\ query_context.res_aliased_exprs = query_call.before.res_aliased_exprs
          ELSE /\ query_call.result.kind = "Ok"
               /\ query_context.res_aliased_exprs
                     = Append(query_call.before.res_aliased_exprs, query_call.arg)

\* an aggregation scope left after a column was referenced in it and a result
\* expression was pushed after that reference
C25_Witness ==
    /\ LeftAggScope
    /\ query_call.seen.refs_since_entry > 0
    /\ query_call.seen.refs_since_mark = 0
    /\ query_call.result.kind = "Err"

(***************************************************************************)
(* C26: the result aliases are unique.                                      *)
(***************************************************************************)
GotAliasedResultExprs == query_call.op = "get_aliased_result_exprs"

\* two of the pushed result expressions share an alias
SharedAlias ==
    \E i, j \in 1..Len(query_context.res_aliased_exprs) :
        i # j /\ query_context.res_aliased_exprs[i].alias
                    = query_context.res_aliased_exprs[j].alias

\* the first expression, in push order, whose alias another expression has too
FirstSharedAlias ==
    LET exprs == query_context.res_aliased_exprs
        first == CHOOSE k \in 1..Len(exprs) :
                    /\ \E j \in 1..Len(exprs) : j # k /\ exprs[j].alias = exprs[k].alias
                    /\ \A i \in 1..(k - 1) :
                          \A j \in 1..Len(exprs) : j # i => exprs[j].alias # exprs[i].alias
    IN exprs[first].alias

\* C26: get_aliased_result_exprs returns DuplicateResultAlias whenever two
\* pushed result expressions share an alias, naming the first expression in
\* push order whose alias is not unique; it returns the expressions, in push
\* order, only when every alias occurs exactly once; it leaves the context as
\* it was.
C26_DuplicateResultAlias ==
    GotAliasedResultExprs =>
        /\ query_context = query_call.before
        /\ SharedAlias =>
              query_call.result = QErr("DuplicateResultAlias", FirstSharedAlias)
        /\ query_call.result.kind = "Ok" =>
              /\ ~SharedAlias
              /\ query_call.result.value = query_context.res_aliased_exprs

\* four expressions pushed under the aliases y, x, x, y: the first whose alias
\* is shared is not the last, and the call names y
C26_Witness ==
    /\ GotAliasedResultExprs
    /\ [k \in 1..Len(query_context.res_aliased_exprs) |->
            query_context.res_aliased_exprs[k].alias] = <<"y", "x", "x", "y">>
    /\ query_call.result = QErr("DuplicateResultAlias", "y")

(***************************************************************************)
(* C27: a bare result column beside an aggregation, without a group-by.     *)
(***************************************************************************)
\* get_aliased_result_exprs was called and returned: it asserts that a result
\* expression was pushed
ReturnedAliasedResultExprs == GotAliasedResultExprs /\ query_call.result.kind # "Panic"

\* the query has no group-by column, at least one aggregation, and at least one
\* column referenced in result scope outside any aggregation
BareColumnBesideAggregation ==
    /\ query_context.group_by_exprs = <<>>
    /\ query_history.agg_entries > 0
    /\ query_history.bare_columns # <<>>

\* first_result_col_out_agg_scope is the first column pushed in result scope
\* outside any aggregation, whatever was pushed after it
FirstBareColumnKept ==
    query_context.first_result_col_out_agg_scope
        = IF query_history.bare_columns = <<>>
          THEN Absent
          ELSE Present(query_history.bare_columns[1])

\* C27 as stated: with no group-by columns, for a query with at least one
\* aggregation and at least one column referenced in result scope outside any
\* aggregation, get_aliased_result_exprs returns InvalidGroupByColumnRef naming
\* the first such column pushed, in whatever order the aggregation and the
\* column were visited; first_result_col_out_agg_scope is written once.
C27_BareColumnBesideAggregationRejected ==
    /\ FirstBareColumnKept
    /\ ReturnedAliasedResultExprs /\ BareColumnBesideAggregation =>
          query_call.result
             = QErr("InvalidGroupByColumnRef", query_history.bare_columns[1])

\* C27 as amended: the same, for a query whose result aliases are all
\* distinct; with a shared alias the call returns DuplicateResultAlias.
C27_BareColumnBesideAggregationRejectedForDistinctAliases ==
    /\ FirstBareColumnKept
    /\ ReturnedAliasedResultExprs /\ BareColumnBesideAggregation =>
          IF SharedAlias
          THEN query_call.result = QErr("DuplicateResultAlias", FirstSharedAlias)
          ELSE query_call.result
                  = QErr("InvalidGroupByColumnRef", query_history.bare_columns[1])

\* the columns b then a referenced outside any aggregation, an aggregation
\* entered only after both, and the call names b
C27_Witness ==
    /\ ReturnedAliasedResultExprs
    /\ BareColumnBesideAggregation
    /\ query_history.bare_columns = <<"b", "a">>
    /\ query_history.refs_since_entry = 0
    /\ query_call.result = QErr("InvalidGroupByColumnRef", "b")

(***************************************************************************)
(* C28: non-aggregated result columns are group-by columns.                 *)
(***************************************************************************)
AskedInGroupByExprs == query_call.op = "is_in_group_by_exprs"

\* the reference asked about is a result-scope reference outside any
\* aggregation, and there is a group-by list
BareResultReference ==
    /\ query_context.group_by_exprs # <<>>
    /\ ~query_context.in_agg_scope
    /\ query_context.in_result_scope

\* C28: is_in_group_by_exprs(c) returns Ok(false) when the group-by list is
\* empty, or the context is inside an aggregation scope, or it is outside result
\* scope; otherwise it returns Ok(true) if c is in the group-by list and the
\* error InvalidGroupByColumnRef(c) if it is not: for a result-scope reference
\* outside any aggregation, with a group-by list, it never returns Ok(false).
C28_BareResultColumnsAreGroupByColumns ==
    AskedInGroupByExprs =>
        LET c == query_call.arg
        IN /\ query_context = query_call.before
           /\ IF ~BareResultReference
              THEN query_call.result = QOk(FALSE)
              ELSE IF \E k \in 1..Len(query_context.group_by_exprs) :
                         query_context.group_by_exprs[k] = c
              THEN query_call.result = QOk(TRUE)
              ELSE query_call.result = QErr("InvalidGroupByColumnRef", c)
           /\ BareResultReference => query_call.result # QOk(FALSE)

\* the column b asked about in result scope, outside any aggregation, with
\* the group-by list of the column a, after an aggregation was visited
C28_Witness ==
    /\ AskedInGroupByExprs
    /\ BareResultReference
    /\ query_context.agg_counter > 0
    /\ query_call.arg = "b"
    /\ query_call.result = QErr("InvalidGroupByColumnRef", "b")

(***************************************************************************)
(* C29: the conversion of a QueryContext to a group-by node.                *)
(***************************************************************************)
Converted == query_call.op = "try_from"

ConvertedToSome == Converted /\ query_call.result.kind = "Ok" /\ query_call.result.value.some

ConvertedToNone == Converted /\ query_call.result = QOk(NoGroupByExpr)

\* g, the result expressions and their number
NumGroupByIdentifiers == Len(query_context.group_by_exprs)

ResultExprs == query_context.res_aliased_exprs

NumResultExprs == Len(ResultExprs)

\* the result expressions are, in order, the g group-by columns, each
\* First(Column(id)) with id the group-by identifier of its position, then zero
\* or more Sum(Column) expressions, then one final Count(Column) expression
GroupBySumCountShape ==
    /\ NumResultExprs >= NumGroupByIdentifiers + 1
    /\ \A k \in 1..NumGroupByIdentifiers :
          /\ IsAggregationOfColumn(ResultExprs[k].expr, "First")
          /\ ResultExprs[k].expr.expr.column = query_context.group_by_exprs[k]
    /\ \A k \in (NumGroupByIdentifiers + 1)..(NumResultExprs - 1) :
          IsAggregationOfColumn(ResultExprs[k].expr, "Sum")
    /\ IsAggregationOfColumn(ResultExprs[NumResultExprs].expr, "Count")

\* the node keeps the order: its group-by list is the group-by identifiers, its
\* sum list the summed columns with their aliases, its count alias the last alias
NodeKeepsOrder ==
    LET converted == query_call.result.value
        g == NumGroupByIdentifiers
    IN /\ [k \in 1..Len(converted.group_by_exprs) |-> converted.group_by_exprs[k].column_id]
             = query_context.group_by_exprs
       /\ Len(converted.sum_expr) = NumResultExprs - g - 1
       /\ \A k \in 1..Len(converted.sum_expr) :
             /\ converted.sum_expr[k].column_expr.column_id = ResultExprs[g + k].expr.expr.column
             /\ converted.sum_expr[k].field.name = ResultExprs[g + k].alias
       /\ converted.count_alias = ResultExprs[NumResultExprs].alias

TableUnset == ~query_context.table.some

WhereMissing == ~query_context.where_expr.some

GroupByUnmapped ==
    \E k \in 1..NumGroupByIdentifiers :
        query_context.group_by_exprs[k] \notin DOMAIN query_context.column_mapping

\* every Sum(Column) between the group-by columns and the last expression sums
\* a column that has a column mapping
SummedColumnsMapped ==
    \A k \in (NumGroupByIdentifiers + 1)..(NumResultExprs - 1) :
        IsAggregationOfColumn(ResultExprs[k].expr, "Sum") =>
            ResultExprs[k].expr.expr.column \in DOMAIN query_context.column_mapping

ConvertedBits == IF decimal_call.op = "i64::try_from" THEN I64Bits ELSE I128Bits

\* the integers a decimal with a fractional scale can be the value of: they are
\* no larger than its unscaled integer
UnscaledIntegers == (-MaxIntVal)..MaxIntVal

\* the decimal int_val * 10^(-scale), of a scale above 0, has the value of the integer v
HasIntegerValue(v) == v * ten_to_the(decimal.scale) = decimal.int_val

\* the value has a non-zero fractional part: it is the value of no integer
HasFractionalPart ==
    /\ decimal.scale > 0
    /\ \A v \in UnscaledIntegers : ~HasIntegerValue(v)

\* the integer the decimal is the value of
IntegerValue ==
    IF decimal.scale > 0
    THEN CHOOSE v \in UnscaledIntegers : HasIntegerValue(v)
    ELSE decimal.int_val * ten_to_the(-decimal.scale)

\* C30: the conversion of an IntermediateDecimal to a w-bit signed integer
\* returns LossyCast when the value has a non-zero fractional part, whatever its
\* size; OutOfRange when the value is an integer outside
\* [-2^(w-1), 2^(w-1) - 1]; and otherwise that integer, both boundary values and
\* integers written with trailing fractional zeros included.
C30_DecimalToSignedInteger ==
    decimal_call # NoConversion =>
        LET w == ConvertedBits
        IN IF HasFractionalPart
           THEN decimal_call.result = DecimalErr("LossyCast")
           ELSE IF IntegerValue < -two_to_the(w - 1) \/ IntegerValue > two_to_the(w - 1) - 1
           THEN decimal_call.result = DecimalErr("OutOfRange")
           ELSE decimal_call.result = DecimalOk(IntegerValue)

\* the lower boundary value written with a trailing fractional zero, -8.0,
\* converted to the narrower type
C30_Witness ==
    /\ decimal_call.op = "i64::try_from"
    /\ decimal = BigDecimal(-(two_to_the(I64Bits - 1) * 10), 1)
    /\ decimal_call.result = DecimalOk(-two_to_the(I64Bits - 1))

(***************************************************************************)
(* C31: the conversion of a decimal to an integer of a precision and scale. *)
(***************************************************************************)
\* the decimal was converted to a precision and scale
ConvertedToBigint == decimal_call.op = "try_into_bigint_with_precision_and_scale"

\* the decimal int_val * 10^(-scale) has the value d * 10^(-scale) at the scale asked for
HasValueAtScale(d) ==
    IF decimal_call.scale >= decimal.scale
    THEN d = decimal.int_val * ten_to_the(decimal_call.scale - decimal.scale)
    ELSE d * ten_to_the(decimal.scale - decimal_call.scale) = decimal.int_val

\* the fractional digits of the decimal fit the scale asked for
FitsScale ==
    \/ decimal_call.scale >= decimal.scale
    \/ \E d \in UnscaledIntegers : HasValueAtScale(d)

\* the integer d with d * 10^(-scale) equal to the value of the decimal
ValueAtScale ==
    IF decimal_call.scale >= decimal.scale
    THEN decimal.int_val * ten_to_the(decimal_call.scale - decimal.scale)
    ELSE CHOOSE d \in UnscaledIntegers : HasValueAtScale(d)

\* d has no more digits than the precision asked for (0 has one digit)
FitsPrecision(d) == -ten_to_the(decimal_call.precision) < d /\ d < ten_to_the(decimal_call.precision)

\* C31: try_into_bigint_with_precision_and_scale(precision, scale) returns an
\* error whenever the decimal cannot be represented at the precision and scale
\* asked for (fractional digits that do not fit the scale, or more digits than
\* the precision after rescaling), and otherwise returns the integer d with
\* d * 10^(-scale) equal to the value of the decimal.
C31_RepresentableOrError ==
    ConvertedToBigint =>
        IF FitsScale /\ FitsPrecision(ValueAtScale)
        THEN decimal_call.result = DecimalOk(ValueAtScale)
        ELSE decimal_call.result.kind = "Err"

\* what the conversion does where the fractional digits fit the scale
C31_RepresentableOrErrorWhereScaleFits ==
    (ConvertedToBigint /\ FitsScale) =>
        IF FitsPrecision(ValueAtScale)
        THEN decimal_call.result = DecimalOk(ValueAtScale)
        ELSE decimal_call.result = DecimalErr("LossyCast")

\* 1.25 converted to precision 2 and scale 1 returns 12, the integer of 1.2
C31_TruncatedWitness ==
    /\ ConvertedToBigint
    /\ decimal = BigDecimal(125, 2)
    /\ decimal_call.precision = 2 /\ decimal_call.scale = 1
    /\ decimal_call.result = DecimalOk(12)

====
